---- MODULE Spec2Model ----
(***************************************************************************)
(* The rfs supervisor daemon (src/cli/daemon.go): the mount registry, the  *)
(* per-connection command handlers (up, ls, down), the monitor loop, the   *)
(* state directory on disk and the resources every mount owns.             *)
(*                                                                         *)
(* Every accepted connection runs handleConn on its own goroutine, so a    *)
(* handler is a process whose position is pc[c]; one action is one step of *)
(* a handler between two points where another goroutine can be scheduled   *)
(* (a registry critical section, a file operation, a child process, an     *)
(* SSH/SFTP/NFS call).  The monitor goroutine is the process Mon.          *)
(***************************************************************************)
EXTENDS Integers, Sequences, FiniteSets, TLC

(***************************************************************************)
(* Bounds of the model.                                                    *)
(***************************************************************************)
\* connections the listener accepts in one run of the supervisor
MaxConns == 3
\* goroutines (connection handlers, a monitor pass) at work at the same time
MaxInFlight == 2
\* length of the names list a down command carries
MaxDownNames == 1

Conns == 1..MaxConns
\* the monitor goroutine (go d.monitorMounts())
Mon == 0
Procs == Conns \cup {Mon}
\* the TCP ports the host hands out to a bind of :0
Ports == {4001, 4002}
\* "no object": a nil pointer, an unset local
Nil == 0

(***************************************************************************)
(* Commands (src/unnamed/part_004: Command, MountName).                    *)
(***************************************************************************)
Aliases == {"d"}
RemotePaths == {"/", "~"}
\* cmd.MountDir: "" asks for the default <stateDir>/<name>
MountDirs == {"", "/mnt"}
\* the up requests of the model: the remote root at the default directory, the
\* remote home at a mount point the user made beforehand
Targets == {<<"d", "/", "">>, <<"d", "~", "/mnt">>}

\* strings.TrimPrefix(s, prefix)
TrimPrefix(s, prefix) ==
  IF Len(s) >= Len(prefix) /\ SubSeq(s, 1, Len(prefix)) = prefix
  THEN SubSeq(s, Len(prefix) + 1, Len(s))
  ELSE s

\* strings.ReplaceAll(s, old, new) for a one-character old
RECURSIVE ReplaceAll(_, _, _)
ReplaceAll(s, old, new) ==
  IF Len(s) = 0 THEN ""
  ELSE (IF SubSeq(s, 1, 1) = old THEN new ELSE SubSeq(s, 1, 1))
       \o ReplaceAll(SubSeq(s, 2, Len(s)), old, new)

\* MountName without the replacement of the slashes
MountName_NoReplace(alias, path) ==
  IF path = "" \/ path = "/" THEN alias
  ELSE IF path = "~" THEN alias \o ":~"
  ELSE alias \o ":" \o TrimPrefix(path, "/")

MountName(alias, path) ==
  IF path = "" \/ path = "/" THEN alias
  ELSE IF path = "~" THEN alias \o ":~"
  ELSE alias \o ":" \o ReplaceAll(TrimPrefix(path, "/"), "/", ":")

Names == {MountName(a, p) : a \in Aliases, p \in RemotePaths}

StateDir == "~/.local/rfs"

\* mountDir of startMount: the custom directory, else <stateDir>/<name>
MountDirOf(name, customMountDir) ==
  IF customMountDir = "" THEN StateDir \o "/" \o name ELSE customMountDir

RECURSIVE SeqsUpTo(_, _)
SeqsUpTo(S, n) ==
  IF n = 0 THEN {<<>>}
  ELSE SeqsUpTo(S, n - 1) \cup
       {Append(s, x) : s \in {t \in SeqsUpTo(S, n - 1) : Len(t) = n - 1}, x \in S}

UpCommands ==
  {[type |-> "up", sshAlias |-> t[1], remotePath |-> t[2], mountDir |-> t[3],
    names |-> <<>>] : t \in Targets}
DownCommands ==
  {[type |-> "down", sshAlias |-> "", remotePath |-> "", mountDir |-> "", names |-> ns] :
     ns \in SeqsUpTo(Names, MaxDownNames)}
OtherCommands ==
  {[type |-> t, sshAlias |-> "", remotePath |-> "", mountDir |-> "", names |-> <<>>] :
     t \in {"ls", "bogus"}}
Commands == UpCommands \cup DownCommands \cup OtherCommands
NoCmd == [type |-> "", sshAlias |-> "", remotePath |-> "", mountDir |-> "", names |-> <<>>]

(***************************************************************************)
(* Responses (src/unnamed/part_004: Response).                             *)
(***************************************************************************)
\* a nil *MountInfo
NoInfo ==
  [name |-> "", port |-> Nil, mountDir |-> "", sshAlias |-> "", remotePath |-> "",
   startedAt |-> Nil]
NoResp == [ok |-> FALSE, error |-> "", mount |-> NoInfo, mounts |-> {}, names |-> <<>>]
ErrResp(msg) == [NoResp EXCEPT !.error = msg]

VARIABLES
  exited,      \* the supervisor process has ended (os.Exit, log.Fatalf)
  mounts,      \* Daemon.mounts: name -> the *mount it holds (the id of its creator)
  aged,        \* registered runtimes whose createdAt lies 10 s or more in the past
  stateFiles,  \* <stateDir>/mounts/<name>.state: name -> content (a MountInfo)
  logs,        \* <stateDir>/mounts/<name>.log: name -> the handle that created the file
  dirs,        \* directories that exist on the host
  mtab,        \* the host mount table: mountDir -> the runtime whose NFS server is mounted
  client,      \* per runtime: the SSH client ("none", "open", "closed"; "lost": its
               \* connection has broken and nobody has closed it)
  sshfs,       \* per runtime: the SFTP adapter
  logh,        \* per runtime: the log handle
  nfs,         \* per runtime: the port its NFS server task listens on (Nil: no server)
  info,        \* per runtime: mount.info, the MountInfo record
  pc,          \* position of every handler and of the monitor
  cmd,         \* the decoded Command of every connection
  resp,        \* the Response the handler returned
  names,       \* handleStop: the names to visit (the argument, or the snapshot)
  idx,         \* handleStop: the position of the loop over names
  stopped,     \* handleStop: the names stopped so far
  cur,         \* handleStop: m, the *mount looked up for the current name
  listen,      \* startMount: the address findFreePort returned
  mountErr,    \* startMount: the host mount command exited non-zero
  toStop,      \* cleanupDisconnected: the names scheduled for a down
  mu           \* Daemon.mu, the registry mutex: the goroutines holding it across steps

\* Starting the supervisor on demand: the clients that dial the command socket
\* and the supervisor processes they start.
VARIABLES
  sock,        \* daemon.sock: the processes whose listener the file at socketPath names
  proc,        \* per supervisor process: where it stands in Daemon.Start
  holds,       \* per supervisor process: its registry is not empty
  cli,         \* per client: where it stands in SendCmd
  dialed,      \* per client: the processes its connection leads to
  tries        \* per client: the dials made in connect's retry loop

\* The SFTP adapter's handling of paths and handles, one call at a time.
VARIABLES
  rootDir,     \* SSHFS.rootDir
  arg,         \* the path the NFS layer passes in
  handle,      \* a file handle: a sequence of bytes
  res,         \* the path a call returned
  op,          \* the calls made so far
  finfo        \* the FileInfo a call returned: info.Mode(), and its Mode() and IsDir()

\* One SSHClient and the goroutines that call its methods.
VARIABLES
  sshConn,     \* SSHClient.conn: "nil" or "conn"
  sshMu,       \* SSHClient.mu: the goroutines holding it
  spc,         \* per goroutine: where it stands in the method it called
  attempt,     \* reconnectNoLock: i, the index of the loop
  dials,       \* per goroutine: the getConn calls of its current EnsureConnected
  waits,       \* per goroutine: the sleeps of its current EnsureConnected, in seconds
  wasConn,     \* per goroutine: EnsureConnected found c.conn != nil
  sret,        \* per goroutine: what the method returned
  fatal        \* log.Fatalf has ended the process

\* One SFTP adapter (SSHFS), the remote directory it serves and the goroutines
\* of the NFS server that call its operations.
VARIABLES
  now,         \* time.Now(), in seconds
  remote,      \* the names that exist in the remote directory rootDir
  linkUp,      \* the SSH connection under the SFTP clients still carries traffic
  faults,      \* the SFTP calls that failed although the connection is up
  fsConn,      \* SSHFS.conn: the SFTP client in use (0: the one NewFS made)
  dirCache,    \* SSHFS.dirCache: directory -> [entries, expiry]
  fpc,         \* per goroutine: where it stands in the adapter operation
  fop,         \* per goroutine: the operation and its path
  fstep,       \* per goroutine: the SFTP call of the operation that is under way
  errs,        \* per goroutine: doWithReconnect, the error of every run of fn
  ferr,        \* per goroutine: the error fn is going to return
  fres,        \* per goroutine: the error the operation returned
  calls,       \* per goroutine: the SFTP calls the operation has issued
  begun        \* the operations the NFS server has called so far

\* One mount's log file and the goroutines that write to it through the
\* size-limited writer.
VARIABLES
  logContent,  \* <name>.log: the bytes of the file
  logWritten,  \* the bytes of every Write that has returned, in the order of the returns
  wpc,         \* per goroutine: where it stands in truncatingFile.Write
  wbuf,        \* per goroutine: content, what os.ReadFile returned
  wbytes,      \* per goroutine: p, the bytes it writes
  wcount       \* the Write calls made so far

regVars == <<mounts, aged>>
diskVars == <<stateFiles, logs, dirs>>
resVars == <<client, sshfs, logh, nfs, info>>
stopVars == <<names, idx, stopped, cur>>
upVars == <<listen, mountErr>>
monVars == <<toStop, mu>>
bootVars == <<sock, proc, holds, cli, dialed, tries>>
daemonVars == <<exited, mounts, aged, stateFiles, logs, dirs, mtab, client, sshfs, logh, nfs,
                info, pc, cmd, resp, names, idx, stopped, cur, listen, mountErr, toStop, mu>>
pathVars == <<rootDir, arg, handle, res, op, finfo>>
sshVars == <<sshConn, sshMu, spc, attempt, dials, waits, wasConn, sret, fatal>>
fsVars == <<now, remote, linkUp, faults, fsConn, dirCache, fpc, fop, fstep, errs, ferr, fres,
            calls, begun>>
logVars == <<logContent, logWritten, wpc, wbuf, wbytes, wcount>>
vars == <<daemonVars, bootVars, pathVars, sshVars, fsVars, logVars>>

Put(f, k, v) == [x \in DOMAIN f \cup {k} |-> IF x = k THEN v ELSE f[x]]
Drop(f, k) == [x \in DOMAIN f \ {k} |-> f[x]]
Range(s) == {s[i] : i \in DOMAIN s}
Perms(S) == {s \in SeqsUpTo(S, Cardinality(S)) : Len(s) = Cardinality(S) /\ Range(s) = S}

NameOf(c) == MountName(cmd[c].sshAlias, cmd[c].remotePath)
DirOf(c) == MountDirOf(NameOf(c), cmd[c].mountDir)

InitDaemon ==
  /\ exited = FALSE
  /\ mounts = <<>>
  /\ aged = {}
  /\ stateFiles = <<>>
  /\ logs = <<>>
  /\ dirs = {d \in MountDirs : d # ""}
  /\ mtab = <<>>
  /\ client = [c \in Conns |-> "none"]
  /\ sshfs = [c \in Conns |-> "none"]
  /\ logh = [c \in Conns |-> "none"]
  /\ nfs = [c \in Conns |-> Nil]
  /\ info = [c \in Conns |-> NoInfo]
  /\ pc = [p \in Procs |-> IF p = Mon THEN "mon_idle" ELSE "idle"]
  /\ cmd = [c \in Conns |-> NoCmd]
  /\ resp = [c \in Conns |-> NoResp]
  /\ names = [p \in Procs |-> <<>>]
  /\ idx = [p \in Procs |-> 1]
  /\ stopped = [p \in Procs |-> <<>>]
  /\ cur = [p \in Procs |-> Nil]
  /\ listen = [c \in Conns |-> Nil]
  /\ mountErr = [c \in Conns |-> FALSE]
  /\ toStop = <<>>
  /\ mu = {}

\* the clients of the autostart protocol, and the process each may start
MaxClients == 2
Clients == 1..MaxClients
\* the supervisor of an earlier session, which has exited
Prev == 0
Supervisors == Clients \cup {Prev}

\* the supervisor runs and no client is starting one
BootQuiet ==
  /\ sock = {}
  /\ proc = [d \in Supervisors |-> "none"]
  /\ holds = [d \in Supervisors |-> FALSE]
  /\ cli = [c \in Clients |-> "done"]
  /\ dialed = [c \in Clients |-> {}]
  /\ tries = [c \in Clients |-> 0]

\* no FileInfo
NoFileInfo == [info |-> {}, Mode |-> {}, IsDir |-> FALSE]

\* no call into the adapter is under way
PathQuiet ==
  /\ rootDir = "/"
  /\ arg = ""
  /\ handle = <<>>
  /\ res = ""
  /\ op = <<>>
  /\ finfo = NoFileInfo

\* the goroutines that call into one SSHClient
MaxSshProcs == 2
SshProcs == 1..MaxSshProcs

\* a connected client nobody calls
SshQuiet ==
  /\ sshConn = "conn"
  /\ sshMu = {}
  /\ spc = [p \in SshProcs |-> "idle"]
  /\ attempt = [p \in SshProcs |-> 0]
  /\ dials = [p \in SshProcs |-> 0]
  /\ waits = [p \in SshProcs |-> <<>>]
  /\ wasConn = [p \in SshProcs |-> FALSE]
  /\ sret = [p \in SshProcs |-> "none"]
  /\ fatal = FALSE

\* the goroutines of the NFS server that call into one adapter
MaxCallers == 2
Callers == 1..MaxCallers

\* no operation of the adapter
NoOp == [name |-> "", path |-> ""]

\* an adapter fresh from NewFS that nobody calls
FsQuiet ==
  /\ now = 0
  /\ remote = {"a"}
  /\ linkUp = TRUE
  /\ faults = 0
  /\ fsConn = 0
  /\ dirCache = <<>>
  /\ fpc = [g \in Callers |-> "idle"]
  /\ fop = [g \in Callers |-> NoOp]
  /\ fstep = [g \in Callers |-> 0]
  /\ errs = [g \in Callers |-> <<>>]
  /\ ferr = [g \in Callers |-> "nil"]
  /\ fres = [g \in Callers |-> "none"]
  /\ calls = [g \in Callers |-> 0]
  /\ begun = 0

\* the goroutines that write to one log
MaxWriters == 2
Writers == 1..MaxWriters

\* a log fresh from openLogFile
LogQuiet ==
  /\ logContent = <<>>
  /\ logWritten = <<>>
  /\ wpc = [w \in Writers |-> "idle"]
  /\ wbuf = [w \in Writers |-> <<>>]
  /\ wbytes = [w \in Writers |-> <<>>]
  /\ wcount = 0

Init == InitDaemon /\ BootQuiet /\ PathQuiet /\ SshQuiet /\ FsQuiet /\ LogQuiet


(***************************************************************************)
(* handleConn: decode, dispatch, respond, self-exit.                       *)
(***************************************************************************)
\* d.mu.Lock(): a step that takes the registry mutex waits while it is held
Locked == mu # {}

\* the goroutines at work: running handlers, the monitor during a pass
InFlight == {p \in Procs : pc[p] \notin {"idle", "done", "mon_idle"}}

\* the listener hands the next connection to a new goroutine
CanAccept(c) ==
  /\ pc[c] = "idle"
  /\ c > 1 => pc[c - 1] # "idle"
  /\ Cardinality(InFlight) < MaxInFlight

\* a self-exit check that finds the registry never empty
HasMounts_Always == TRUE

\* len(d.mounts) > 0, read under the registry lock
HasMounts == DOMAIN mounts # {}

\* A handler that has returned forgets its locals (the goroutine is gone); the
\* closed objects of an up that built no mount are unreachable and collected.
Forget(c) ==
  /\ IF info[c] = NoInfo
     THEN /\ client' = [client EXCEPT ![c] = IF @ = "closed" THEN "none" ELSE @]
          /\ sshfs' = [sshfs EXCEPT ![c] = IF @ = "closed" THEN "none" ELSE @]
          /\ logh' = [logh EXCEPT ![c] = IF @ = "closed" THEN "none" ELSE @]
     ELSE UNCHANGED <<client, sshfs, logh>>
  /\ cmd' = [cmd EXCEPT ![c] = NoCmd]
  /\ resp' = [resp EXCEPT ![c] = NoResp]
  /\ names' = [names EXCEPT ![c] = <<>>]
  /\ idx' = [idx EXCEPT ![c] = 1]
  /\ stopped' = [stopped EXCEPT ![c] = <<>>]
  /\ cur' = [cur EXCEPT ![c] = Nil]
  /\ listen' = [listen EXCEPT ![c] = Nil]
  /\ mountErr' = [mountErr EXCEPT ![c] = FALSE]

\* The switch on cmd.Type: where the handler goes and what it has answered so far.
DispatchPc(command) ==
  CASE command.type = "up" -> "up_check"
    [] command.type = "ls" -> "ls"
    [] command.type = "down" -> "stop_begin"
    [] OTHER -> "respond"

\* ln.Accept hands out connections one after the other; the handler decodes one
\* Command and dispatches on its type.
Accept(c) ==
  /\ ~exited
  /\ CanAccept(c)
  /\ \E command \in Commands :
       /\ cmd' = [cmd EXCEPT ![c] = command]
       /\ pc' = [pc EXCEPT ![c] = DispatchPc(command)]
       /\ resp' = [resp EXCEPT ![c] =
                     IF DispatchPc(command) = "respond"
                     THEN ErrResp("unknown command") ELSE NoResp]
       /\ names' = [names EXCEPT ![c] = command.names]
  /\ UNCHANGED <<exited, regVars, diskVars, mtab, resVars, idx, stopped, cur, upVars,
                 monVars>>
  /\ UNCHANGED <<bootVars, pathVars, sshVars, fsVars, logVars>>

\* The request does not decode: the error is written and the handler returns
\* before the self-exit check.
AcceptGarbage(c) ==
  /\ ~exited
  /\ CanAccept(c)
  /\ pc' = [pc EXCEPT ![c] = "done"]
  /\ UNCHANGED <<exited, regVars, diskVars, mtab, resVars, cmd, resp, stopVars, upVars,
                 monVars>>
  /\ UNCHANGED <<bootVars, pathVars, sshVars, fsVars, logVars>>

\* json.NewEncoder(conn).Encode(resp), then the self-exit check under the lock.
Respond(c) ==
  /\ ~exited
  /\ pc[c] = "respond"
  /\ ~Locked
  /\ exited' = ~HasMounts
  /\ pc' = [pc EXCEPT ![c] = "done"]
  /\ Forget(c)
  /\ UNCHANGED <<regVars, diskVars, mtab, nfs, info, monVars>>
  /\ UNCHANGED <<bootVars, pathVars, sshVars, fsVars, logVars>>

\* handleList: a snapshot of every registered mount's info
HandleList(c) ==
  /\ ~exited
  /\ pc[c] = "ls"
  /\ ~Locked
  /\ resp' = [resp EXCEPT ![c] =
                [NoResp EXCEPT !.ok = TRUE,
                               !.mounts = {info[mounts[n]] : n \in DOMAIN mounts}]]
  /\ pc' = [pc EXCEPT ![c] = "respond"]
  /\ UNCHANGED <<exited, regVars, diskVars, mtab, resVars, cmd, stopVars, upVars, monVars>>
  /\ UNCHANGED <<bootVars, pathVars, sshVars, fsVars, logVars>>

(***************************************************************************)
(* handleUp and startMount: the up pipeline.                               *)
(***************************************************************************)
\* an already-mounted check that never finds the name
Exists_Never(name) == FALSE

\* _, exists := d.mounts[name], read under the registry lock
Exists(name) == name \in DOMAIN mounts

\* handleUp's error return after startMount failed: logFile.Close(), the error verbatim
UpFails(c, msg) ==
  /\ logh' = [logh EXCEPT ![c] = "closed"]
  /\ resp' = [resp EXCEPT ![c] = ErrResp(msg)]
  /\ pc' = [pc EXCEPT ![c] = "respond"]

\* os.RemoveAll(mountDir)
RemoveAll(dir) == dirs' = dirs \ {dir}

\* the already-mounted check
UpCheck(c) ==
  /\ ~exited
  /\ pc[c] = "up_check"
  /\ ~Locked
  /\ IF Exists(NameOf(c))
     THEN /\ resp' = [resp EXCEPT ![c] = ErrResp("already mounted: " \o NameOf(c))]
          /\ pc' = [pc EXCEPT ![c] = "respond"]
     ELSE /\ pc' = [pc EXCEPT ![c] = "up_log"]
          /\ UNCHANGED resp
  /\ UNCHANGED <<exited, regVars, diskVars, mtab, resVars, cmd, stopVars, upVars, monVars>>
  /\ UNCHANGED <<bootVars, pathVars, sshVars, fsVars, logVars>>

\* openLogFile: remove the old log, create a new one
UpOpenLog(c) ==
  /\ ~exited
  /\ pc[c] = "up_log"
  /\ \/ /\ logs' = Put(logs, NameOf(c), c)
        /\ logh' = [logh EXCEPT ![c] = "open"]
        /\ pc' = [pc EXCEPT ![c] = "sm_port"]
        /\ UNCHANGED resp
     \/ /\ logs' = Drop(logs, NameOf(c))
        /\ resp' = [resp EXCEPT ![c] = ErrResp("failed to create log")]
        /\ pc' = [pc EXCEPT ![c] = "respond"]
        /\ UNCHANGED logh
  /\ UNCHANGED <<exited, regVars, stateFiles, dirs, mtab, client, sshfs, nfs, info, cmd,
                 stopVars, upVars, monVars>>
  /\ UNCHANGED <<bootVars, pathVars, sshVars, fsVars, logVars>>

\* the ports some NFS server of this process listens on
BoundPorts == {nfs[x] : x \in Conns} \ {Nil}

\* findFreePort: bind :0, read the port, close the listener
SmFindPort(c) ==
  /\ ~exited
  /\ pc[c] = "sm_port"
  /\ \/ /\ \E p \in Ports \ BoundPorts : listen' = [listen EXCEPT ![c] = p]
        /\ pc' = [pc EXCEPT ![c] = "sm_mkdir"]
        /\ UNCHANGED <<logh, resp>>
     \/ /\ UpFails(c, "listen tcp :0")
        /\ UNCHANGED listen
  /\ UNCHANGED <<exited, regVars, diskVars, mtab, client, sshfs, nfs, info, cmd, stopVars,
                 mountErr, monVars>>
  /\ UNCHANGED <<bootVars, pathVars, sshVars, fsVars, logVars>>

\* os.MkdirAll(mountDir, 0755)
SmMkdir(c) ==
  /\ ~exited
  /\ pc[c] = "sm_mkdir"
  /\ \/ /\ dirs' = dirs \cup {DirOf(c)}
        /\ pc' = [pc EXCEPT ![c] = "sm_ssh"]
        /\ UNCHANGED <<logh, resp>>
     \/ /\ UpFails(c, "mkdir")
        /\ UNCHANGED dirs
  /\ UNCHANGED <<exited, regVars, stateFiles, logs, mtab, client, sshfs, nfs, info, cmd,
                 stopVars, upVars, monVars>>
  /\ UNCHANGED <<bootVars, pathVars, sshVars, fsVars, logVars>>

\* ssh.Connect(alias); client.NewSession(), session.Run("echo"), session.Close();
\* client.NewFS(remotePath).  The three stages touch only this handler's own
\* client until one of them fails and the mount directory is removed.  Inside
\* ssh.Connect, getConn ends the process with log.Fatalf when `ssh -G alias`
\* fails or known_hosts cannot be loaded; an error of ssh.Dial is returned.
SmSSH(c) ==
  /\ ~exited
  /\ pc[c] = "sm_ssh"
  /\ \/ /\ client' = [client EXCEPT ![c] = "open"]
        /\ sshfs' = [sshfs EXCEPT ![c] = "open"]
        /\ pc' = [pc EXCEPT ![c] = "sm_server"]
        /\ UNCHANGED <<exited, dirs, logh, resp>>
     \/ /\ exited' = TRUE
        /\ pc' = [pc EXCEPT ![c] = "fatal"]
        /\ UNCHANGED <<client, sshfs, dirs, logh, resp>>
     \/ /\ RemoveAll(DirOf(c))
        /\ UpFails(c, "ssh connect")
        /\ UNCHANGED <<exited, client, sshfs>>
     \/ /\ \E msg \in {"new session", "session run", "new fs"} :
             /\ client' = [client EXCEPT ![c] = "closed"]
             /\ RemoveAll(DirOf(c))
             /\ UpFails(c, msg)
        /\ UNCHANGED <<exited, sshfs>>
  /\ UNCHANGED <<regVars, stateFiles, logs, mtab, nfs, info, cmd, stopVars, upVars,
                 monVars>>
  /\ UNCHANGED <<bootVars, pathVars, sshVars, fsVars, logVars>>

\* a server that binds its address only when it serves: creating it succeeds
\* whether or not the port is taken
SmNewServer_LazyBind(c) ==
  /\ ~exited
  /\ pc[c] = "sm_server"
  /\ nfs' = [nfs EXCEPT ![c] = listen[c]]
  /\ pc' = [pc EXCEPT ![c] = "sm_mount"]
  /\ UNCHANGED <<client, sshfs, dirs, logh, resp>>
  /\ UNCHANGED <<exited, regVars, stateFiles, logs, mtab, info, cmd, stopVars, upVars,
                 monVars>>
  /\ UNCHANGED <<bootVars, pathVars, sshVars, fsVars, logVars>>

\* server.NewServerTCP(listen, backend) and go svr.Serve(); the address cannot be
\* bound while another server of this process listens on it
SmNewServer(c) ==
  /\ ~exited
  /\ pc[c] = "sm_server"
  /\ \/ /\ listen[c] \notin BoundPorts
        /\ nfs' = [nfs EXCEPT ![c] = listen[c]]
        /\ pc' = [pc EXCEPT ![c] = "sm_mount"]
        /\ UNCHANGED <<client, sshfs, dirs, logh, resp>>
     \/ /\ sshfs' = [sshfs EXCEPT ![c] = "closed"]
        /\ client' = [client EXCEPT ![c] = "closed"]
        /\ RemoveAll(DirOf(c))
        /\ UpFails(c, "new server")
        /\ UNCHANGED nfs
  /\ UNCHANGED <<exited, regVars, stateFiles, logs, mtab, info, cmd, stopVars, upVars,
                 monVars>>
  /\ UNCHANGED <<bootVars, pathVars, sshVars, fsVars, logVars>>

\* MountInfo of the mount startMount builds; startedAt is the creating handler's
\* time.Now(), which no other handler shares
NewInfo(c) ==
  [name |-> NameOf(c), port |-> listen[c], mountDir |-> DirOf(c),
   sshAlias |-> cmd[c].sshAlias, remotePath |-> cmd[c].remotePath, startedAt |-> c]

\* a startMount that treats a failed host mount like the failure of a stage: the
\* adapter and the client are closed, the directory removed, the error returned
AfterMountCmd_Fatal(c, exitOk) ==
  IF exitOk
  THEN /\ info' = [info EXCEPT ![c] = NewInfo(c)]
       /\ pc' = [pc EXCEPT ![c] = "up_insert"]
       /\ UNCHANGED <<client, sshfs, nfs, logh, dirs, resp>>
  ELSE /\ sshfs' = [sshfs EXCEPT ![c] = "closed"]
       /\ client' = [client EXCEPT ![c] = "closed"]
       /\ RemoveAll(DirOf(c))
       /\ UpFails(c, "mount")
       /\ UNCHANGED <<nfs, info>>

\* what startMount does when the host mount command has exited: a non-zero exit
\* is written to the log and startMount goes on to build the mount
AfterMountCmd(c, exitOk) ==
  /\ info' = [info EXCEPT ![c] = NewInfo(c)]
  /\ pc' = [pc EXCEPT ![c] = "up_insert"]
  /\ UNCHANGED <<client, sshfs, nfs, logh, dirs, resp>>

\* the 2 s sleep, umount -f mountDir, mount -t nfs ... mountDir, and m := &mount{...}
SmMount(c) ==
  /\ ~exited
  /\ pc[c] = "sm_mount"
  /\ \E exitOk \in BOOLEAN :
       /\ mtab' = IF exitOk THEN Put(mtab, DirOf(c), c) ELSE Drop(mtab, DirOf(c))
       /\ mountErr' = [mountErr EXCEPT ![c] = ~exitOk]
       /\ AfterMountCmd(c, exitOk)
  /\ UNCHANGED <<exited, regVars, stateFiles, logs, cmd, stopVars, listen, monVars>>
  /\ UNCHANGED <<bootVars, pathVars, sshVars, fsVars, logVars>>

\* m.createdAt = time.Now(); d.mounts[name] = m, under the registry lock
UpInsert(c) ==
  /\ ~exited
  /\ pc[c] = "up_insert"
  /\ ~Locked
  /\ mounts' = Put(mounts, NameOf(c), c)
  /\ aged' = aged \cap {mounts'[n] : n \in DOMAIN mounts'}
  /\ pc' = [pc EXCEPT ![c] = "up_save"]
  /\ UNCHANGED <<exited, diskVars, mtab, resVars, cmd, resp, stopVars, upVars, monVars>>
  /\ UNCHANGED <<bootVars, pathVars, sshVars, fsVars, logVars>>

\* saveState(name, info): the record marshalled into <name>.state
SaveState(name, record) == stateFiles' = Put(stateFiles, name, record)

\* d.saveState(name, m.info); return Response{OK: true, Mount: m.info}
UpSave(c) ==
  /\ ~exited
  /\ pc[c] = "up_save"
  /\ SaveState(NameOf(c), info[c])
  /\ resp' = [resp EXCEPT ![c] = [NoResp EXCEPT !.ok = TRUE, !.mount = info[c]]]
  /\ pc' = [pc EXCEPT ![c] = "respond"]
  /\ UNCHANGED <<exited, regVars, logs, dirs, mtab, resVars, cmd, stopVars, upVars, monVars>>
  /\ UNCHANGED <<bootVars, pathVars, sshVars, fsVars, logVars>>

(***************************************************************************)
(* handleStop: down of the given names, or of every registered mount.      *)
(***************************************************************************)
\* x.Close() behind an "if x != nil" guard
CloseIfSet(state) == IF state = "none" THEN "none" ELSE "closed"

\* a handleStop that takes no snapshot: an empty names list stops nothing
StopBegin_NoSnapshot(p) ==
  /\ ~exited
  /\ pc[p] = "stop_begin"
  /\ idx' = [idx EXCEPT ![p] = 1]
  /\ stopped' = [stopped EXCEPT ![p] = <<>>]
  /\ pc' = [pc EXCEPT ![p] = "stop_loop"]
  /\ UNCHANGED <<exited, regVars, diskVars, mtab, resVars, cmd, resp, names, cur, upVars,
                 monVars>>
  /\ UNCHANGED <<bootVars, pathVars, sshVars, fsVars, logVars>>

\* len(names) == 0: snapshot the registered names under the lock (a Go map is
\* ranged over in no particular order)
StopBegin(p) ==
  /\ ~exited
  /\ pc[p] = "stop_begin"
  /\ Len(names[p]) = 0 => ~Locked
  /\ IF Len(names[p]) = 0
     THEN \E snapshot \in Perms(DOMAIN mounts) : names' = [names EXCEPT ![p] = snapshot]
     ELSE UNCHANGED names
  /\ idx' = [idx EXCEPT ![p] = 1]
  /\ stopped' = [stopped EXCEPT ![p] = <<>>]
  /\ pc' = [pc EXCEPT ![p] = "stop_loop"]
  /\ UNCHANGED <<exited, regVars, diskVars, mtab, resVars, cmd, resp, cur, upVars, monVars>>
  /\ UNCHANGED <<bootVars, pathVars, sshVars, fsVars, logVars>>

\* the name the loop of handleStop is at
CurName(p) == names[p][idx[p]]

\* a lookup that treats a name it does not find as stopped: its state file is
\* removed and the name is reported
StopLookup_MissCounts(p) ==
  /\ ~exited
  /\ pc[p] = "stop_loop"
  /\ idx[p] <= Len(names[p])
  /\ ~Locked
  /\ IF CurName(p) \in DOMAIN mounts
     THEN /\ cur' = [cur EXCEPT ![p] = mounts[CurName(p)]]
          /\ pc' = [pc EXCEPT ![p] = "stop_teardown"]
          /\ UNCHANGED <<idx, stopped, stateFiles>>
     ELSE /\ idx' = [idx EXCEPT ![p] = idx[p] + 1]
          /\ stateFiles' = Drop(stateFiles, CurName(p))
          /\ stopped' = [stopped EXCEPT ![p] = Append(stopped[p], CurName(p))]
          /\ UNCHANGED <<cur, pc>>
  /\ UNCHANGED <<exited, regVars, logs, dirs, mtab, resVars, cmd, resp, names, upVars,
                 monVars>>
  /\ UNCHANGED <<bootVars, pathVars, sshVars, fsVars, logVars>>

\* m, ok := d.mounts[name] under the lock; a name that is not registered is skipped
StopLookup(p) ==
  /\ ~exited
  /\ pc[p] = "stop_loop"
  /\ idx[p] <= Len(names[p])
  /\ ~Locked
  /\ IF CurName(p) \in DOMAIN mounts
     THEN /\ cur' = [cur EXCEPT ![p] = mounts[CurName(p)]]
          /\ pc' = [pc EXCEPT ![p] = "stop_teardown"]
          /\ UNCHANGED idx
     ELSE /\ idx' = [idx EXCEPT ![p] = idx[p] + 1]
          /\ UNCHANGED <<cur, pc>>
  /\ UNCHANGED <<exited, regVars, diskVars, mtab, resVars, cmd, resp, names, stopped,
                 upVars, monVars>>
  /\ UNCHANGED <<bootVars, pathVars, sshVars, fsVars, logVars>>

\* what handleStop releases of the mount m: umount -f, sshFS.Close(), client.Close(),
\* logFile.Close(), os.RemoveAll(m.info.MountDir)
Teardown(m) ==
  /\ mtab' = Drop(mtab, info[m].mountDir)
  /\ sshfs' = [sshfs EXCEPT ![m] = CloseIfSet(sshfs[m])]
  /\ client' = [client EXCEPT ![m] = CloseIfSet(client[m])]
  /\ logh' = [logh EXCEPT ![m] = CloseIfSet(logh[m])]
  /\ RemoveAll(info[m].mountDir)
  /\ UNCHANGED nfs

StopTeardown(p) ==
  /\ ~exited
  /\ pc[p] = "stop_teardown"
  /\ Teardown(cur[p])
  /\ pc' = [pc EXCEPT ![p] = "stop_delete"]
  /\ UNCHANGED <<exited, regVars, stateFiles, logs, info, cmd, resp, stopVars, upVars,
                 monVars>>
  /\ UNCHANGED <<bootVars, pathVars, sshVars, fsVars, logVars>>

\* delete(d.mounts, name) under the lock
StopDelete(p) ==
  /\ ~exited
  /\ pc[p] = "stop_delete"
  /\ ~Locked
  /\ mounts' = Drop(mounts, CurName(p))
  /\ aged' = aged \cap {mounts'[n] : n \in DOMAIN mounts'}
  /\ pc' = [pc EXCEPT ![p] = "stop_delstate"]
  /\ UNCHANGED <<exited, diskVars, mtab, resVars, cmd, resp, stopVars, upVars, monVars>>
  /\ UNCHANGED <<bootVars, pathVars, sshVars, fsVars, logVars>>

\* deleteState(name): os.Remove of <name>.state
DeleteState(name) == stateFiles' = Drop(stateFiles, name)

\* d.deleteState(name); stopped = append(stopped, name)
StopDeleteState(p) ==
  /\ ~exited
  /\ pc[p] = "stop_delstate"
  /\ DeleteState(CurName(p))
  /\ stopped' = [stopped EXCEPT ![p] = Append(stopped[p], CurName(p))]
  /\ idx' = [idx EXCEPT ![p] = idx[p] + 1]
  /\ cur' = [cur EXCEPT ![p] = Nil]
  /\ pc' = [pc EXCEPT ![p] = "stop_loop"]
  /\ UNCHANGED <<exited, regVars, logs, dirs, mtab, resVars, cmd, resp, names, upVars,
                 monVars>>
  /\ UNCHANGED <<bootVars, pathVars, sshVars, fsVars, logVars>>

\* return Response{OK: true, Names: stopped}; the monitor drops the response
StopReturn(p) ==
  /\ ~exited
  /\ pc[p] = "stop_loop"
  /\ idx[p] > Len(names[p])
  /\ IF p = Mon
     THEN /\ pc' = [pc EXCEPT ![p] = "mon_loop"]
          /\ names' = [names EXCEPT ![p] = <<>>]
          /\ idx' = [idx EXCEPT ![p] = 1]
          /\ stopped' = [stopped EXCEPT ![p] = <<>>]
          /\ UNCHANGED resp
     ELSE /\ pc' = [pc EXCEPT ![p] = "respond"]
          /\ resp' = [resp EXCEPT ![p] = [NoResp EXCEPT !.ok = TRUE, !.names = stopped[p]]]
          /\ UNCHANGED <<names, idx, stopped>>
  /\ UNCHANGED <<exited, regVars, diskVars, mtab, resVars, cmd, cur, upVars, monVars>>
  /\ UNCHANGED <<bootVars, pathVars, sshVars, fsVars, logVars>>

(***************************************************************************)
(* monitorMounts and cleanupDisconnected.                                  *)
(***************************************************************************)
\* SSHClient.IsConnected: conn != nil; Close leaves conn set, and so does the
\* loss of the connection
IsConnected(m) == client[m] \in {"open", "closed", "lost"}

\* isMounted(path): the output of `mount` lists the directory
IsMounted(dir) == dir \in DOMAIN mtab

\* the names one pass of cleanupDisconnected schedules: past the grace window,
\* and disconnected or not mounted
Disconnected ==
  {n \in DOMAIN mounts :
     /\ mounts[n] \in aged
     /\ \/ ~(client[mounts[n]] = "none" \/ IsConnected(mounts[n]))
        \/ ~IsMounted(info[mounts[n]].mountDir)}

\* 10 s have passed since m.createdAt
GraceElapses(m) ==
  /\ ~exited
  /\ m \in {mounts[n] : n \in DOMAIN mounts} \ aged
  /\ aged' = aged \cup {m}
  /\ UNCHANGED <<exited, mounts, diskVars, mtab, resVars, pc, cmd, resp, stopVars, upVars,
                 monVars>>
  /\ UNCHANGED <<bootVars, pathVars, sshVars, fsVars, logVars>>

\* a tick of the 5 s ticker: cleanupDisconnected takes the registry mutex. (A
\* pass that finds no mount past its grace window skips every entry and
\* changes nothing.)
MonLock ==
  /\ ~exited
  /\ pc[Mon] = "mon_idle"
  /\ Cardinality(InFlight) < MaxInFlight
  /\ ~Locked
  /\ {n \in DOMAIN mounts : mounts[n] \in aged} # {}
  /\ mu' = {Mon}
  /\ pc' = [pc EXCEPT ![Mon] = "mon_scan"]
  /\ UNCHANGED <<exited, regVars, diskVars, mtab, resVars, cmd, resp, stopVars, upVars,
                 toStop>>
  /\ UNCHANGED <<bootVars, pathVars, sshVars, fsVars, logVars>>

\* the scan, with the mutex held: for every mount past its grace window
\* IsConnected is read and isMounted runs the host's `mount` command and
\* searches its output; then d.mu.Unlock()
MonScan ==
  /\ ~exited
  /\ pc[Mon] = "mon_scan"
  /\ \E order \in Perms(Disconnected) : toStop' = order
  /\ mu' = {}
  /\ pc' = [pc EXCEPT ![Mon] = "mon_loop"]
  /\ UNCHANGED <<exited, regVars, diskVars, mtab, resVars, cmd, resp, stopVars, upVars>>
  /\ UNCHANGED <<bootVars, pathVars, sshVars, fsVars, logVars>>

\* for _, name := range toStop { d.handleStop([]string{name}) }
MonNext ==
  /\ ~exited
  /\ pc[Mon] = "mon_loop"
  /\ IF toStop = <<>>
     THEN /\ pc' = [pc EXCEPT ![Mon] = "mon_idle"]
          /\ UNCHANGED <<names, toStop>>
     ELSE /\ names' = [names EXCEPT ![Mon] = <<Head(toStop)>>]
          /\ toStop' = Tail(toStop)
          /\ pc' = [pc EXCEPT ![Mon] = "stop_begin"]
  /\ UNCHANGED <<exited, regVars, diskVars, mtab, resVars, cmd, resp, idx, stopped, cur,
                 upVars, mu>>
  /\ UNCHANGED <<bootVars, pathVars, sshVars, fsVars, logVars>>

(***************************************************************************)
(* The supervisor: every goroutine may take its next step at any time.     *)
(***************************************************************************)
\* a step of the running supervisor; nobody starts another one
Next ==
  \/ \E c \in Conns :
       \/ Accept(c) \/ AcceptGarbage(c) \/ Respond(c) \/ HandleList(c)
       \/ UpCheck(c) \/ UpOpenLog(c) \/ SmFindPort(c) \/ SmMkdir(c) \/ SmSSH(c)
       \/ SmNewServer(c) \/ SmMount(c)
       \/ UpInsert(c) \/ UpSave(c)
       \/ GraceElapses(c)
  \/ \E p \in Procs :
       \/ StopBegin(p) \/ StopLookup(p) \/ StopTeardown(p) \/ StopDelete(p)
       \/ StopDeleteState(p) \/ StopReturn(p)
  \/ MonLock
  \/ MonScan
  \/ MonNext

Spec == Init /\ [][Next]_vars

\* The same supervisor with its requests served one at a time: a connection is
\* accepted, and a monitor pass starts, only when no other goroutine is at work.
NextSerial == Next /\ Cardinality(InFlight)' <= 1

SpecSerial == Init /\ [][NextSerial]_vars

(***************************************************************************)
(* Properties.                                                             *)
(***************************************************************************)
\* no handler is running and no monitor pass is under way
Quiescent == ~exited /\ InFlight = {}

\* process p takes the step that leaves position `from`
Leaves(p, from) == pc[p] = from /\ pc'[p] # from

\* C1: every mount name in the registry has a state file on disk holding that
\* mount's record.  Stated for the states in which every request has returned
\* and no monitor pass is running, where no handler is between its registry
\* update and its file operation.
C1_RegisteredHasStateFile ==
  Quiescent =>
    \A n \in DOMAIN mounts :
      n \in DOMAIN stateFiles /\ stateFiles[n] = info[mounts[n]]

\* C2: a state file is written only when its name has been inserted into the
\* registry, and it is removed while its name is still in the registry (the
\* registry deletion comes after the removal).
C2_SaveAfterInsertRemoveBeforeDelete ==
  [][\A n \in Names :
       /\ (n \in DOMAIN stateFiles' /\ (n \notin DOMAIN stateFiles
                                         \/ stateFiles'[n] # stateFiles[n]))
            => n \in DOMAIN mounts
       /\ (n \in DOMAIN stateFiles /\ n \notin DOMAIN stateFiles')
            => n \in DOMAIN mounts']_vars

\* C3: when handleStop returns, in a client's handler or in the monitor, no name
\* it reports as stopped has a state file.
C3_StateAbsentWhenDownReturns ==
  [][\A p \in Procs :
       (pc[p] = "stop_loop" /\ pc'[p] \in {"respond", "mon_loop"})
         => \A n \in Range(stopped[p]) : n \notin DOMAIN stateFiles']_vars

\* everything a mount owns and everything the registry and the disk hold
sharedVars == <<mounts, aged, stateFiles, logs, dirs, mtab, client, sshfs, logh, nfs, info>>

\* C4: an up whose name is already registered is answered "already mounted:
\* <name>" with ok = false, and neither the check nor the answer changes the
\* registry, any record, state file, log file or resource.
C4_AlreadyMountedRefused ==
  [][\A c \in Conns :
       /\ (Leaves(c, "up_check") /\ NameOf(c) \in DOMAIN mounts)
            => /\ pc'[c] = "respond"
               /\ resp'[c] = ErrResp("already mounted: " \o NameOf(c))
               /\ ~resp'[c].ok
               /\ UNCHANGED sharedVars
       /\ (Leaves(c, "respond") /\ cmd[c].type = "up"
             /\ resp[c].error = "already mounted: " \o NameOf(c))
            => UNCHANGED sharedVars]_vars

C4_Witness ==
  \E c \in Conns :
    /\ pc[c] = "respond"
    /\ cmd[c].type = "up"
    /\ resp[c] = ErrResp("already mounted: " \o NameOf(c))
    /\ NameOf(c) \in DOMAIN mounts
    /\ mounts[NameOf(c)] # c

\* the error strings of the stages of startMount
PortErrors == {"listen tcp :0"}
MkdirErrors == {"mkdir"}
PipelineErrors ==
  PortErrors \cup MkdirErrors \cup
  {"ssh connect", "new session", "session run", "new fs", "new server"}

\* C5: when up returns the error of a failed stage, its name is not in the
\* registry and has no state file, its SSH client, SFTP adapter and log handle
\* are not open, it has no NFS server, and the mount directory is gone once a
\* stage after its creation failed.
C5_FailedUpLeavesNothing ==
  [][\A c \in Conns :
       (pc[c] # "respond" /\ pc'[c] = "respond" /\ resp'[c].error \in PipelineErrors)
         => /\ NameOf(c) \notin DOMAIN mounts'
            /\ NameOf(c) \notin DOMAIN stateFiles'
            /\ client'[c] # "open"
            /\ sshfs'[c] # "open"
            /\ logh'[c] # "open"
            /\ nfs'[c] = Nil
            /\ resp'[c].error \notin (PortErrors \cup MkdirErrors)
                 => DirOf(c) \notin dirs']_vars

\* the SSH client and the SFTP adapter of runtime m are open and its NFS server listens
Running(m) == client[m] = "open" /\ sshfs[m] = "open" /\ nfs[m] # Nil

\* C6: when the host mount command exits non-zero, startMount still builds the
\* mount with its client, adapter and server running; handleUp inserts it into
\* the registry, writes its state file and returns ok = true with the record;
\* no step of the up closes anything.
C6_MountFailureNotFatal ==
  [][\A c \in Conns :
       /\ (Leaves(c, "sm_mount") /\ mountErr'[c])
            => pc'[c] = "up_insert" /\ Running(c)' /\ logh'[c] = "open"
       /\ (Leaves(c, "up_insert") /\ mountErr[c])
            => /\ pc'[c] = "up_save"
               /\ NameOf(c) \in DOMAIN mounts' /\ mounts'[NameOf(c)] = c
               /\ Running(c)'
       /\ (Leaves(c, "up_save") /\ mountErr[c])
            => /\ pc'[c] = "respond"
               /\ NameOf(c) \in DOMAIN stateFiles' /\ stateFiles'[NameOf(c)] = info[c]
               /\ resp'[c].ok /\ resp'[c].error = "" /\ resp'[c].mount = info[c]
               /\ info[c].name = NameOf(c)
               /\ UNCHANGED <<client, sshfs, logh, nfs, dirs>>]_vars

C6_Witness ==
  \E c \in Conns :
    /\ pc[c] = "respond"
    /\ mountErr[c]
    /\ resp[c].ok /\ resp[c].mount = info[c]
    /\ NameOf(c) \in DOMAIN mounts /\ mounts[NameOf(c)] = c
    /\ NameOf(c) \in DOMAIN stateFiles /\ stateFiles[NameOf(c)] = info[c]
    /\ Running(c)
    /\ info[c].mountDir \notin DOMAIN mtab

\* C7: a down that finds a name not in the registry skips it: the step changes
\* no registry entry, state file or resource and does not report the name, and
\* the response is ok = true, without error, listing the names it did stop.
C7_DownOfUnregisteredIsNoop ==
  [][\A p \in Conns :
       /\ (/\ pc[p] = "stop_loop"
           /\ idx[p] <= Len(names[p])
           /\ CurName(p) \notin DOMAIN mounts
           /\ <<pc[p], idx[p], stopped[p], cur[p]>>' # <<pc[p], idx[p], stopped[p], cur[p]>>)
            => /\ pc'[p] = "stop_loop"
               /\ idx'[p] = idx[p] + 1
               /\ stopped'[p] = stopped[p]
               /\ UNCHANGED sharedVars
       /\ (pc[p] = "stop_loop" /\ pc'[p] = "respond")
            => /\ resp'[p].ok /\ resp'[p].error = ""
               /\ resp'[p].names = stopped[p]]_vars

C7_Witness ==
  \E c \in Conns :
    /\ pc[c] = "respond"
    /\ cmd[c].type = "down"
    /\ Len(cmd[c].names) = 1
    /\ cmd[c].names[1] \notin DOMAIN mounts
    /\ resp[c] = [NoResp EXCEPT !.ok = TRUE]
    /\ DOMAIN mounts # {}
    /\ DOMAIN stateFiles = DOMAIN mounts

\* s lists every element of S once
IsPerm(s, S) == Len(s) = Cardinality(S) /\ Range(s) = S

C9_DownReleasesAllFive ==
  [][\A p \in Procs :
       Leaves(p, "stop_delstate")
         => /\ client'[cur[p]] # "open"
            /\ sshfs'[cur[p]] # "open"
            /\ logh'[cur[p]] # "open"
            /\ info[cur[p]].mountDir \notin dirs'
            /\ nfs'[cur[p]] = Nil]_vars

\* C10: the handler of a decoded command, having written its response, makes
\* the supervisor exit exactly when the registry is empty at its check.
C10_SelfExitIffRegistryEmpty ==
  [][\A c \in Conns :
       Leaves(c, "respond") => (exited' <=> DOMAIN mounts = {})]_vars

C10_Witness ==
  /\ exited
  /\ DOMAIN mounts = {}
  /\ \E c \in Conns : pc[c] = "done"

\* C11: when the last registered mount has been torn down, the supervisor
\* exits without a further command: a client's down exits once its response is
\* written, and a monitor pass that has emptied the registry, with no handler
\* at work, ends with the supervisor exited.
C11_LastTeardownExits ==
  [][/\ \A c \in Conns :
          (Leaves(c, "respond") /\ cmd[c].type = "down" /\ DOMAIN mounts = {})
            => exited'
     /\ (/\ pc[Mon] = "mon_loop" /\ pc'[Mon] = "mon_idle"
         /\ InFlight = {Mon}
         /\ DOMAIN mounts = {})
          => exited']_vars

\* the steps of a handler after its command is decoded, and of handleStop
HandlerStep(c) ==
  \/ Respond(c) \/ HandleList(c)
  \/ UpCheck(c) \/ UpOpenLog(c) \/ SmFindPort(c) \/ SmMkdir(c) \/ SmSSH(c)
  \/ SmNewServer(c) \/ SmMount(c) \/ UpInsert(c) \/ UpSave(c)

StopStep(p) ==
  \/ StopBegin(p) \/ StopLookup(p) \/ StopTeardown(p) \/ StopDelete(p)
  \/ StopDeleteState(p) \/ StopReturn(p)

\* The supervisor under a fair scheduler: a goroutine that stays able to take
\* a step takes it in the end, and the 5 s ticker of monitorMounts keeps firing
\* whatever the handlers do. Clients are free to send nothing.
SpecFair ==
  /\ Spec
  /\ \A c \in Conns : WF_vars(HandlerStep(c))
  /\ \A p \in Procs : WF_vars(StopStep(p))
  /\ SF_vars(MonLock)
  /\ WF_vars(MonScan)
  /\ WF_vars(MonNext)

\* runtime m is registered under n, past its grace window, and the monitor's
\* test finds it disconnected or not mounted
Stale(n, m) ==
  /\ ~exited
  /\ n \in DOMAIN mounts /\ mounts[n] = m
  /\ n \in Disconnected

\* runtime m is out of the registry (a supervisor that has exited has none)
\* and no state file holds its record
TornDown(n, m) ==
  /\ exited \/ ~(n \in DOMAIN mounts /\ mounts[n] = m)
  /\ ~(n \in DOMAIN stateFiles /\ stateFiles[n] = info[m])

\* C12: under a fair scheduler, a registered mount past its grace window that
\* the monitor's test finds disconnected or not mounted is in the end out of
\* the registry, with its state file deleted.
C12_DisconnectedEventuallyTornDown ==
  \A n \in Names : \A m \in Conns : Stale(n, m) ~> TornDown(n, m)

\* C13: the mount a monitor-initiated handleStop looks up and goes on to tear
\* down is past its 10 s grace window: its createdAt lies 10 s or more back.
C13_MonitorSparesFreshMounts ==
  [][(pc[Mon] = "stop_loop" /\ pc'[Mon] = "stop_teardown") => cur'[Mon] \in aged]_vars

\* the positions whose next step starts a child process (mount, umount), makes
\* an SSH or SFTP call, or writes or removes a file
SuspendingPcs ==
  {"up_log", "sm_mkdir", "sm_ssh", "sm_mount", "up_save", "stop_teardown", "stop_delstate",
   "mon_scan"}

\* C14: no goroutine takes a step that starts a child process, makes an SSH or
\* SFTP call or writes a file while it holds the registry mutex.
C14_NoSuspensionUnderRegistryLock ==
  [][\A p \in Procs :
       (pc[p] \in SuspendingPcs /\ pc'[p] # pc[p]) => p \notin mu]_vars

(***************************************************************************)
(* Starting the supervisor on demand: connect and startDaemon of the       *)
(* client, Daemon.Start of the process it starts.                          *)
(***************************************************************************)
\* for range 20: the dials of connect's retry loop
DialRetries == 20

\* no supervisor runs; the one of an earlier session may have left daemon.sock
\* behind (os.Exit runs no deferred ln.Close)
InitBoot ==
  /\ sock \in {{}, {Prev}}
  /\ proc = [d \in Supervisors |-> IF d = Prev THEN "exited" ELSE "none"]
  /\ holds = [d \in Supervisors |-> FALSE]
  /\ cli = [c \in Clients |-> "dial"]
  /\ dialed = [c \in Clients |-> {}]
  /\ tries = [c \in Clients |-> 0]

\* net.Dial("unix", socketPath) succeeds: the file names a listener that is open
Listening == {d \in sock : proc[d] = "serving"}

\* connect: the first dial; on failure startDaemon() is called
Dial(c) ==
  /\ cli[c] = "dial"
  /\ IF Listening # {}
     THEN /\ dialed' = [dialed EXCEPT ![c] = Listening]
          /\ cli' = [cli EXCEPT ![c] = "connected"]
     ELSE /\ cli' = [cli EXCEPT ![c] = "start"]
          /\ UNCHANGED dialed
  /\ UNCHANGED <<sock, proc, holds, tries>>
  /\ UNCHANGED <<daemonVars, pathVars, sshVars, fsVars, logVars>>

\* startDaemon: exec.Command(execPath, "daemon").Start()
StartDaemon(c) ==
  /\ cli[c] = "start"
  /\ proc' = [proc EXCEPT ![c] = "started"]
  /\ cli' = [cli EXCEPT ![c] = "retry"]
  /\ UNCHANGED <<sock, holds, dialed, tries>>
  /\ UNCHANGED <<daemonVars, pathVars, sshVars, fsVars, logVars>>

\* connect: one turn of the retry loop, or return nil after the last
Retry(c) ==
  /\ cli[c] = "retry"
  /\ IF tries[c] = DialRetries
     THEN /\ cli' = [cli EXCEPT ![c] = "done"]
          /\ UNCHANGED <<dialed, tries>>
     ELSE /\ tries' = [tries EXCEPT ![c] = tries[c] + 1]
          /\ IF Listening # {}
             THEN /\ dialed' = [dialed EXCEPT ![c] = Listening]
                  /\ cli' = [cli EXCEPT ![c] = "connected"]
             ELSE UNCHANGED <<dialed, cli>>
  /\ UNCHANGED <<sock, proc, holds>>
  /\ UNCHANGED <<daemonVars, pathVars, sshVars, fsVars, logVars>>

\* Daemon.Start: os.RemoveAll(d.socketPath)
StartRemove(d) ==
  /\ proc[d] = "started"
  /\ sock' = {}
  /\ proc' = [proc EXCEPT ![d] = "removed"]
  /\ UNCHANGED <<holds, cli, dialed, tries>>
  /\ UNCHANGED <<daemonVars, pathVars, sshVars, fsVars, logVars>>

\* Daemon.Start: net.Listen("unix", d.socketPath) creates the file, or fails
\* when the path exists and the process ends in log.Fatal
StartListen(d) ==
  /\ proc[d] = "removed"
  /\ IF sock = {}
     THEN /\ sock' = {d}
          /\ proc' = [proc EXCEPT ![d] = "serving"]
     ELSE /\ proc' = [proc EXCEPT ![d] = "exited"]
          /\ UNCHANGED sock
  /\ UNCHANGED <<holds, cli, dialed, tries>>
  /\ UNCHANGED <<daemonVars, pathVars, sshVars, fsVars, logVars>>

\* SendCmd on an open connection: the supervisor at its end handles the
\* command, which leaves its registry empty or not, writes the response and
\* exits if the registry is empty; a supervisor that has exited sends nothing
Serve(c) ==
  /\ cli[c] = "connected"
  /\ cli' = [cli EXCEPT ![c] = "done"]
  /\ \E d \in dialed[c] :
       IF proc[d] = "serving"
       THEN \E registered \in BOOLEAN :
              /\ holds' = [holds EXCEPT ![d] = registered]
              /\ proc' = [proc EXCEPT ![d] = IF registered THEN "serving" ELSE "exited"]
       ELSE UNCHANGED <<holds, proc>>
  /\ UNCHANGED <<sock, dialed, tries>>
  /\ UNCHANGED <<daemonVars, pathVars, sshVars, fsVars, logVars>>

NextBoot ==
  \/ \E c \in Clients : Dial(c) \/ StartDaemon(c) \/ Retry(c) \/ Serve(c)
  \/ \E d \in Clients : StartRemove(d) \/ StartListen(d)

\* clients that find no supervisor running, beside an idle supervisor state
InitStart == InitDaemon /\ InitBoot /\ PathQuiet /\ SshQuiet /\ FsQuiet /\ LogQuiet

SpecBoot == InitStart /\ [][NextBoot]_vars

\* supervisor processes that have bound the command socket and not exited
Alive == {d \in Supervisors : proc[d] = "serving"}

\* C15: at no time are two supervisor processes serving, and a supervisor that
\* serves owns the command socket: the file at socketPath names its listener.
C15_SingleSupervisor ==
  /\ Cardinality(Alive) <= 1
  /\ \A d \in Alive : d \in sock

\* C16: any two mounts registered at the same time have different ports, and
\* the port in a registered mount's record is the one its own NFS server has
\* bound.
C16_DistinctPorts ==
  /\ \A n1 \in DOMAIN mounts : \A n2 \in DOMAIN mounts :
       n1 # n2 => info[mounts[n1]].port # info[mounts[n2]].port
  /\ \A n \in DOMAIN mounts :
       info[mounts[n]].port # Nil /\ info[mounts[n]].port = nfs[mounts[n]]

C16_Witness ==
  /\ Cardinality(DOMAIN mounts) = 2
  /\ \E c \in Conns : pc[c] = "respond" /\ resp[c].error = "new server"
                      /\ listen[c] \in BoundPorts

\* C17: an up that does not get past ssh.Connect and the stages after it, a
\* configuration error of the alias or of known_hosts included, is refused
\* with an error response; the supervisor keeps running, the registry and
\* the resources of every other mount are as they were.
C17_ConfigErrorRefused ==
  [][\A c \in Conns :
       (Leaves(c, "sm_ssh") /\ pc'[c] # "sm_server")
         => /\ ~exited'
            /\ pc'[c] = "respond"
            /\ ~resp'[c].ok /\ resp'[c].error # ""
            /\ mounts' = mounts
            /\ \A m \in Conns \ {c} :
                 client'[m] = client[m] /\ sshfs'[m] = sshfs[m] /\ nfs'[m] = nfs[m]]_vars

(***************************************************************************)
(* Paths: path.Clean, path.Join, isRootPath and SSHFS.resolvePath.         *)
(***************************************************************************)
\* the longest path and the longest rootDir tried
MaxPathLen == 4
MaxRootLen == 3

\* the characters paths are made of
PathChars == {"/", "a", ".", "~"}

RECURSIVE StringsUpTo(_)
StringsUpTo(n) ==
  IF n = 0 THEN {""}
  ELSE LET shorter == StringsUpTo(n - 1)
       IN  shorter \cup {s \o ch : s \in shorter, ch \in PathChars}

Paths == StringsUpTo(MaxPathLen)

\* s[i] as a string
Char(s, i) == SubSeq(s, i, i)

\* strings.HasPrefix
HasPrefix(s, prefix) == Len(s) >= Len(prefix) /\ SubSeq(s, 1, Len(prefix)) = prefix

\* path.IsAbs
IsAbs(p) == Len(p) > 0 /\ Char(p, 1) = "/"

RootDirs == {r \in StringsUpTo(MaxRootLen) : IsAbs(r)}

\* the elements of p between its slashes, empty ones included
RECURSIVE SplitAt(_, _, _)
SplitAt(s, i, acc) ==
  IF i > Len(s) THEN <<acc>>
  ELSE IF Char(s, i) = "/" THEN <<acc>> \o SplitAt(s, i + 1, "")
  ELSE SplitAt(s, i + 1, acc \o Char(s, i))

Elements(p) == SplitAt(p, 1, "")

\* strings.Join(elems, "/")
RECURSIVE JoinSlash(_)
JoinSlash(elems) ==
  IF elems = <<>> THEN ""
  ELSE IF Len(elems) = 1 THEN elems[1]
  ELSE elems[1] \o "/" \o JoinSlash(Tail(elems))

\* path.Clean's pass over the elements: empty and "." elements go, ".." takes
\* the element before it, or goes itself at the root of a rooted path
RECURSIVE CleanElems(_, _, _, _)
CleanElems(elems, i, rooted, out) ==
  IF i > Len(elems) THEN out
  ELSE IF elems[i] = "" \/ elems[i] = "." THEN CleanElems(elems, i + 1, rooted, out)
  ELSE IF elems[i] = ".."
  THEN IF Len(out) > 0 /\ out[Len(out)] # ".."
       THEN CleanElems(elems, i + 1, rooted, SubSeq(out, 1, Len(out) - 1))
       ELSE IF rooted THEN CleanElems(elems, i + 1, rooted, out)
       ELSE CleanElems(elems, i + 1, rooted, Append(out, ".."))
  ELSE CleanElems(elems, i + 1, rooted, Append(out, elems[i]))

\* path.Clean
Clean(p) ==
  LET body == JoinSlash(CleanElems(Elements(p), 1, IsAbs(p), <<>>))
  IN  IF IsAbs(p) THEN "/" \o body
      ELSE IF body = "" THEN "." ELSE body

\* path.Join(a, b): empty arguments are ignored, the result is cleaned
Join(a, b) ==
  IF a = "" /\ b = "" THEN ""
  ELSE IF a = "" THEN Clean(b)
  ELSE IF b = "" THEN Clean(a)
  ELSE Clean(a \o "/" \o b)

\* isRootPath
isRootPath(p, root) ==
  \/ p = "" \/ p = "." \/ p = "/" \/ p = "~"
  \/ Clean(p) = Clean(root)

\* SSHFS.resolvePath, with fs.rootDir = root
resolvePath(root, p) ==
  IF isRootPath(p, root) THEN root
  ELSE IF p = "~" THEN root
  ELSE IF HasPrefix(p, "~/") THEN Join(root, SubSeq(p, 3, Len(p)))
  ELSE IF IsAbs(p)
  THEN IF Clean(root) = "/" THEN Clean(p)
       ELSE IF HasPrefix(p, Clean(root)) THEN Clean(p)
       ELSE Join(Clean(root), SubSeq(p, 2, Len(p)))
  ELSE Join(Clean(root), p)

(***************************************************************************)
(* Handles: encodePath, decodePath, GetRootHandle, GetHandle,              *)
(* ResolveHandle.                                                          *)
(***************************************************************************)
\* the byte of a character, and the character of a byte
Ord(ch) == CASE ch = "/" -> 47 [] ch = "." -> 46 [] ch = "a" -> 97 [] ch = "~" -> 126
Chr(b) == CHOOSE ch \in PathChars : Ord(ch) = b

\* []byte(s) and string(b)
BytesOf(s) == [i \in 1..Len(s) |-> Ord(Char(s, i))]
RECURSIVE StringOf(_)
StringOf(b) == IF b = <<>> THEN "" ELSE Chr(Head(b)) \o StringOf(Tail(b))

\* binary.BigEndian.PutUint32 and Uint32
PutUint32(n) ==
  <<(n \div 16777216) % 256, (n \div 65536) % 256, (n \div 256) % 256, n % 256>>
Uint32(b) == ((b[1] * 256 + b[2]) * 256 + b[3]) * 256 + b[4]

\* encodePath: the length in four bytes, then the bytes of the path
encodePath(p) == PutUint32(Len(p)) \o BytesOf(p)

\* decodePath: "" for a handle that is too short or whose length field points
\* past its end
decodePath(b) ==
  IF Len(b) < 4 THEN ""
  ELSE IF Uint32(b) > Len(b) - 4 THEN ""
  ELSE StringOf(SubSeq(b, 5, 4 + Uint32(b)))

\* path.Base, the Name() of the FileInfo that Lstat returns
Base(p) ==
  LET elems == SelectSeq(Elements(p), LAMBDA e : e # "")
  IN  IF p = "" THEN "."
      ELSE IF elems = <<>> THEN "/"
      ELSE elems[Len(elems)]

\* GetHandle(Stat(p)): Stat wraps the FileInfo with nfsPath = p; GetHandle
\* encodes nfsPath, or info.Name() when nfsPath is empty
GetHandleOfStat(root, p) ==
  IF p # "" THEN encodePath(p) ELSE encodePath(Base(resolvePath(root, p)))

\* GetRootHandle
GetRootHandle(root) == encodePath(root)

\* ResolveHandle
ResolveHandle(root, h) ==
  IF decodePath(h) = "" \/ h = <<Ord("/")>> THEN root ELSE decodePath(h)

(***************************************************************************)
(* The adapter called with every rootDir and path of the bounded sets.     *)
(***************************************************************************)
InitPath ==
  /\ rootDir \in RootDirs
  /\ arg \in Paths
  /\ handle = <<>>
  /\ res = ""
  /\ op = <<>>
  /\ finfo = NoFileInfo

CallResolvePath ==
  /\ op = <<>>
  /\ res' = resolvePath(rootDir, arg)
  /\ op' = <<"resolvePath">>
  /\ UNCHANGED <<rootDir, arg, handle, finfo>>
  /\ UNCHANGED <<daemonVars, bootVars, sshVars, fsVars, logVars>>

CallEncodePath ==
  /\ op = <<>>
  /\ handle' = encodePath(arg)
  /\ op' = <<"encodePath">>
  /\ UNCHANGED <<rootDir, arg, res, finfo>>
  /\ UNCHANGED <<daemonVars, bootVars, sshVars, fsVars, logVars>>

CallDecodePath ==
  /\ op \in {<<"encodePath">>, <<"wire">>}
  /\ res' = decodePath(handle)
  /\ op' = Append(op, "decodePath")
  /\ UNCHANGED <<rootDir, arg, handle, finfo>>
  /\ UNCHANGED <<daemonVars, bootVars, sshVars, fsVars, logVars>>

CallGetHandle ==
  /\ op = <<>>
  /\ handle' = GetHandleOfStat(rootDir, arg)
  /\ op' = <<"GetHandle">>
  /\ UNCHANGED <<rootDir, arg, res, finfo>>
  /\ UNCHANGED <<daemonVars, bootVars, sshVars, fsVars, logVars>>

CallGetRootHandle ==
  /\ op = <<>>
  /\ handle' = GetRootHandle(rootDir)
  /\ op' = <<"GetRootHandle">>
  /\ UNCHANGED <<rootDir, arg, res, finfo>>
  /\ UNCHANGED <<daemonVars, bootVars, sshVars, fsVars, logVars>>

CallResolveHandle ==
  /\ op \in {<<"GetHandle">>, <<"GetRootHandle">>, <<"wire">>}
  /\ res' = ResolveHandle(rootDir, handle)
  /\ op' = Append(op, "ResolveHandle")
  /\ UNCHANGED <<rootDir, arg, handle, finfo>>
  /\ UNCHANGED <<daemonVars, bootVars, sshVars, fsVars, logVars>>

\* Handles as the NFS client sends them: any bytes. The length field is drawn
\* from LenBytes and the bytes after it from the bytes of "/" and "a".
MaxRawTail == 2
LenBytes == {0, 1, 2, 97}
RawHandles ==
  SeqsUpTo(LenBytes, 3)
    \cup {h \o t : h \in [1..4 -> LenBytes],
                   t \in SeqsUpTo({Ord("/"), Ord("a")}, MaxRawTail)}

\* a handle arrives from the NFS client, on its own: the call has no path
ReceiveHandle ==
  /\ op = <<>>
  /\ arg = ""
  /\ handle' \in RawHandles
  /\ op' = <<"wire">>
  /\ UNCHANGED <<rootDir, arg, res, finfo>>
  /\ UNCHANGED <<daemonVars, bootVars, sshVars, fsVars, logVars>>

\* the aliases MountName is called with: none holds a "/"
NameAliases == {"d", "a.a"}

\* handleUp: name := MountName(alias, remotePath), for any remote path
CallMountName ==
  /\ op = <<>>
  /\ \E alias \in NameAliases :
       /\ res' = MountName(alias, arg)
       /\ op' = <<"MountName", alias>>
  /\ UNCHANGED <<rootDir, arg, handle, finfo>>
  /\ UNCHANGED <<daemonVars, bootVars, sshVars, fsVars, logVars>>

\* the type bits of an os.FileMode the model tells apart
ModeBits == {"ModeDir", "ModeSymlink"}

\* fileInfoWrapper.IsDir, for info.Mode() = mode
WrapperIsDir(mode, nfsPath, root) ==
  IF isRootPath(nfsPath, root) THEN TRUE
  ELSE IF "ModeSymlink" \in mode THEN FALSE
  ELSE "ModeDir" \in mode

\* fileInfoWrapper.Mode, for info.Mode() = mode
WrapperMode(mode, nfsPath, root) ==
  IF "ModeSymlink" \in mode
  THEN IF isRootPath(nfsPath, root) /\ "ModeDir" \in mode
       THEN mode \cup {"ModeDir"}
       ELSE mode
  ELSE IF WrapperIsDir(mode, nfsPath, root) THEN mode \cup {"ModeDir"}
  ELSE mode

\* Stat / Lstat: newFileInfoWithPath(info, filePath, fs.rootDir) around what
\* conn.Lstat answered, and the Mode() and IsDir() the NFS layer reads
CallStat ==
  /\ op = <<>>
  /\ \E mode \in SUBSET ModeBits :
       finfo' = [info |-> mode,
                 Mode |-> WrapperMode(mode, arg, rootDir),
                 IsDir |-> WrapperIsDir(mode, arg, rootDir)]
  /\ op' = <<"Stat">>
  /\ UNCHANGED <<rootDir, arg, handle, res>>
  /\ UNCHANGED <<daemonVars, bootVars, sshVars, fsVars, logVars>>

\* the ids of the local user when os/user gives none
CurrentUID == 501
CurrentGID == 20

\* the sizes of the files of the model
FileSizes == {0, 12}

\* %d
RECURSIVE Dec(_)
Dec(n) ==
  IF n < 10 THEN SubSeq("0123456789", n + 1, n + 1)
  ELSE Dec(n \div 10) \o Dec(n % 10)

\* GetFileId: the string that is hashed, for a FileInfo with this name and size;
\* Sys() of the wrapper is always a *fileStat with the ids of the local user
FileIdKey(name, size) ==
  name \o ":" \o Dec(CurrentUID) \o ":" \o Dec(CurrentGID) \o ":" \o Dec(size)

\* GetFileId(info) for the FileInfo of the file at arg: info.Name() is the base
\* name the server reports
CallGetFileId ==
  /\ op = <<>>
  /\ \E size \in FileSizes :
       /\ res' = FileIdKey(Base(arg), size)
       /\ op' = <<"GetFileId", Dec(size)>>
  /\ UNCHANGED <<rootDir, arg, handle, finfo>>
  /\ UNCHANGED <<daemonVars, bootVars, sshVars, fsVars, logVars>>

\* strings.TrimRight(s, "/")
RECURSIVE TrimRightSlash(_)
TrimRightSlash(s) ==
  IF Len(s) > 0 /\ Char(s, Len(s)) = "/" THEN TrimRightSlash(SubSeq(s, 1, Len(s) - 1)) ELSE s

\* the index of the first ":" of s at or after i, 0 when there is none
RECURSIVE FirstColon(_, _)
FirstColon(s, i) ==
  IF i > Len(s) THEN 0 ELSE IF Char(s, i) = ":" THEN i ELSE FirstColon(s, i + 1)

\* ParseTarget(target): <<alias, path>>
ParseTarget(target) ==
  LET t == TrimRightSlash(target)
      i == FirstColon(t, 1)
  IN  IF i = 0 THEN <<t, "~">> ELSE <<SubSeq(t, 1, i - 1), SubSeq(t, i + 1, Len(t))>>

\* the client parses the target alias:arg of its command line
CallParseTarget ==
  /\ op = <<>>
  /\ \E alias \in NameAliases :
       LET parsed == ParseTarget(alias \o ":" \o arg)
       IN  /\ res' = parsed[2]
           /\ op' = <<"ParseTarget", alias, parsed[1]>>
  /\ UNCHANGED <<rootDir, arg, handle, finfo>>
  /\ UNCHANGED <<daemonVars, bootVars, sshVars, fsVars, logVars>>

NextPath ==
  \/ CallResolvePath
  \/ CallEncodePath \/ CallDecodePath
  \/ CallGetHandle \/ CallGetRootHandle \/ CallResolveHandle
  \/ ReceiveHandle
  \/ CallMountName
  \/ CallStat
  \/ CallGetFileId
  \/ CallParseTarget

\* an adapter about to be called, beside an idle supervisor
InitAdapter == InitDaemon /\ BootQuiet /\ InitPath /\ SshQuiet /\ FsQuiet /\ LogQuiet

SpecPath == InitAdapter /\ [][NextPath]_vars

\* the elements of a cleaned path
Components(p) == SelectSeq(Elements(Clean(p)), LAMBDA e : e # "")

\* p is the directory root or lies below it, element by element
Within(p, root) ==
  /\ IsAbs(p) = IsAbs(root)
  /\ Len(Components(root)) <= Len(Components(p))
  /\ SubSeq(Components(p), 1, Len(Components(root))) = Components(root)

\* C18: for a path without a ".." element, resolvePath returns rootDir itself
\* or a path inside clean(rootDir), element by element.
C18_ResolveStaysInsideRoot ==
  (op = <<"resolvePath">> /\ ".." \notin Range(Elements(arg)))
    => (res = rootDir \/ Within(res, rootDir))

\* the six rules of path resolution
ResolveRules(root, p) ==
  IF p \in {"", ".", "/", "~"} THEN root
  ELSE IF HasPrefix(p, "~/") THEN Join(root, SubSeq(p, 3, Len(p)))
  ELSE IF IsAbs(p)
  THEN IF root = "/" \/ Within(p, root) THEN Clean(p)
       ELSE Join(root, SubSeq(p, 2, Len(p)))
  ELSE Join(root, p)

\* C19: resolvePath returns the path the six rules name (up to path.Clean).
C19_ResolveFollowsRules ==
  op = <<"resolvePath">> => Clean(res) = Clean(ResolveRules(rootDir, arg))

\* C20: decodePath undoes encodePath; the handle of Stat(p) resolves to a path
\* that resolvePath maps where it maps p; the root handle resolves to rootDir.
C20_HandleRoundTrip ==
  /\ op = <<"encodePath", "decodePath">> => res = arg
  /\ op = <<"GetHandle", "ResolveHandle">>
       => resolvePath(rootDir, res) = resolvePath(rootDir, arg)
  /\ op = <<"GetRootHandle", "ResolveHandle">> => res = rootDir
\* a buffer that is a 4-byte big-endian length n followed by exactly n bytes
WellFormed(b) == Len(b) >= 4 /\ Uint32(b) = Len(b) - 4

\* C21: for every buffer that is not a 4-byte big-endian length n followed by
\* exactly n bytes (too short, length past the end, or bytes after the path),
\* decodePath returns "" and ResolveHandle returns rootDir.
C21_MalformedHandleRejected ==
  /\ (op = <<"wire", "decodePath">> /\ ~WellFormed(handle)) => res = ""
  /\ (op = <<"wire", "ResolveHandle">> /\ ~WellFormed(handle)) => res = rootDir
(***************************************************************************)
(* SSHClient: EnsureConnected / reconnectNoLock, NewSession, IsConnected,  *)
(* SetConn. Every method takes SSHClient.mu first and releases it when it  *)
(* returns (defer c.mu.Unlock()).                                          *)
(***************************************************************************)
\* for i := range 5
ReconnectAttempts == 5

\* waitTime := time.Duration(i+1) * 2 * time.Second, in seconds
WaitTime(i) == (i + 1) * 2

\* what getConn does: a connection, an error, or log.Fatalf
GetConnOutcomes == {"ok", "error", "fatal"}

othersVars == <<daemonVars, bootVars, pathVars, fsVars, logVars>>

\* a goroutine calls a method of the client and reaches c.mu.Lock()
SshCall(p) ==
  /\ ~fatal
  /\ spc[p] = "idle"
  /\ \E m \in {"ec_lock", "ns_lock", "ic_lock", "sc_lock"} :
       spc' = [spc EXCEPT ![p] = m]
  /\ attempt' = [attempt EXCEPT ![p] = 0]
  /\ dials' = [dials EXCEPT ![p] = 0]
  /\ waits' = [waits EXCEPT ![p] = <<>>]
  /\ wasConn' = [wasConn EXCEPT ![p] = FALSE]
  /\ sret' = [sret EXCEPT ![p] = "none"]
  /\ UNCHANGED <<sshConn, sshMu, fatal>>
  /\ UNCHANGED othersVars

\* EnsureConnected: c.mu.Lock(); if c.conn != nil { return nil }
EcLock(p) ==
  /\ ~fatal
  /\ spc[p] = "ec_lock"
  /\ sshMu = {}
  /\ wasConn' = [wasConn EXCEPT ![p] = sshConn # "nil"]
  /\ IF sshConn # "nil"
     THEN /\ sret' = [sret EXCEPT ![p] = "nil"]
          /\ spc' = [spc EXCEPT ![p] = "ec_done"]
          /\ UNCHANGED sshMu
     ELSE /\ sshMu' = {p}
          /\ spc' = [spc EXCEPT ![p] = "ec_dial"]
          /\ UNCHANGED sret
  /\ UNCHANGED <<sshConn, attempt, dials, waits, fatal>>
  /\ UNCHANGED othersVars

\* reconnectNoLock: conn, err := getConn(c.alias), the dial and the handshake
EcDial(p) ==
  /\ ~fatal
  /\ spc[p] = "ec_dial"
  /\ dials' = [dials EXCEPT ![p] = @ + 1]
  /\ \E out \in GetConnOutcomes :
       \/ /\ out = "ok"
          /\ sshConn' = "conn"
          /\ sret' = [sret EXCEPT ![p] = "nil"]
          /\ sshMu' = sshMu \ {p}
          /\ spc' = [spc EXCEPT ![p] = "ec_done"]
          /\ UNCHANGED fatal
       \/ /\ out = "error"
          /\ spc' = [spc EXCEPT ![p] = "ec_sleep"]
          /\ UNCHANGED <<sshConn, sret, sshMu, fatal>>
       \/ /\ out = "fatal"
          /\ fatal' = TRUE
          /\ spc' = [spc EXCEPT ![p] = "fatal"]
          /\ UNCHANGED <<sshConn, sret, sshMu>>
  /\ UNCHANGED <<attempt, waits, wasConn>>
  /\ UNCHANGED othersVars

\* reconnectNoLock: time.Sleep(waitTime), then the next round of the loop, or
\* the error after the last one
EcSleep(p) ==
  /\ ~fatal
  /\ spc[p] = "ec_sleep"
  /\ waits' = [waits EXCEPT ![p] = Append(@, WaitTime(attempt[p]))]
  /\ attempt' = [attempt EXCEPT ![p] = @ + 1]
  /\ IF attempt[p] + 1 < ReconnectAttempts
     THEN /\ spc' = [spc EXCEPT ![p] = "ec_dial"]
          /\ UNCHANGED <<sret, sshMu>>
     ELSE /\ sret' = [sret EXCEPT ![p] = "error"]
          /\ sshMu' = sshMu \ {p}
          /\ spc' = [spc EXCEPT ![p] = "ec_done"]
  /\ UNCHANGED <<sshConn, dials, wasConn, fatal>>
  /\ UNCHANGED othersVars

\* NewSession: c.mu.Lock(); "not connected" when c.conn == nil
NsLock(p) ==
  /\ ~fatal
  /\ spc[p] = "ns_lock"
  /\ sshMu = {}
  /\ IF sshConn = "nil"
     THEN /\ sret' = [sret EXCEPT ![p] = "error"]
          /\ spc' = [spc EXCEPT ![p] = "ns_done"]
          /\ UNCHANGED sshMu
     ELSE /\ sshMu' = {p}
          /\ spc' = [spc EXCEPT ![p] = "ns_open"]
          /\ UNCHANGED sret
  /\ UNCHANGED <<sshConn, attempt, dials, waits, wasConn, fatal>>
  /\ UNCHANGED othersVars

\* NewSession: c.conn.NewSession() answers, the deferred Unlock runs
NsOpen(p) ==
  /\ ~fatal
  /\ spc[p] = "ns_open"
  /\ \E r \in {"nil", "error"} : sret' = [sret EXCEPT ![p] = r]
  /\ sshMu' = sshMu \ {p}
  /\ spc' = [spc EXCEPT ![p] = "ns_done"]
  /\ UNCHANGED <<sshConn, attempt, dials, waits, wasConn, fatal>>
  /\ UNCHANGED othersVars

\* IsConnected: c.mu.Lock(); return c.conn != nil
IcLock(p) ==
  /\ ~fatal
  /\ spc[p] = "ic_lock"
  /\ sshMu = {}
  /\ sret' = [sret EXCEPT ![p] = IF sshConn # "nil" THEN "true" ELSE "false"]
  /\ spc' = [spc EXCEPT ![p] = "ic_done"]
  /\ UNCHANGED <<sshConn, sshMu, attempt, dials, waits, wasConn, fatal>>
  /\ UNCHANGED othersVars

\* SetConn(nil): c.mu.Lock(); c.conn = conn
SetConn(p) ==
  /\ ~fatal
  /\ spc[p] = "sc_lock"
  /\ sshMu = {}
  /\ sshConn' = "nil"
  /\ spc' = [spc EXCEPT ![p] = "sc_done"]
  /\ UNCHANGED <<sshMu, attempt, dials, waits, wasConn, sret, fatal>>
  /\ UNCHANGED othersVars

\* the method has returned to its caller
SshReturn(p) ==
  /\ ~fatal
  /\ spc[p] \in {"ec_done", "ns_done", "ic_done", "sc_done"}
  /\ spc' = [spc EXCEPT ![p] = "idle"]
  /\ UNCHANGED <<sshConn, sshMu, attempt, dials, waits, wasConn, sret, fatal>>
  /\ UNCHANGED othersVars

NextSsh ==
  \E p \in SshProcs :
    \/ SshCall(p) \/ EcLock(p) \/ EcDial(p) \/ EcSleep(p)
    \/ NsLock(p) \/ NsOpen(p) \/ IcLock(p) \/ SetConn(p) \/ SshReturn(p)

\* a connected client, beside an idle supervisor
InitSsh == InitDaemon /\ BootQuiet /\ PathQuiet /\ SshQuiet /\ FsQuiet /\ LogQuiet

SpecSsh == InitSsh /\ [][NextSsh]_vars
\* C25: EnsureConnected does not dial when the client is connected; otherwise
\* it dials at most 5 times, the first successful dial installs the connection
\* and returns nil, the i-th failed dial is followed by a wait of 2*i seconds,
\* and the error is returned after 5 failed dials.
C25_EnsureConnectedBounded ==
  [][\A p \in SshProcs :
       /\ (spc[p] = "ec_lock" /\ spc'[p] # "ec_lock" /\ sshConn # "nil")
            => (spc'[p] = "ec_done" /\ sret'[p] = "nil" /\ dials'[p] = 0)
       /\ dials'[p] <= ReconnectAttempts
       /\ (spc[p] = "ec_dial" /\ spc'[p] # "ec_dial")
            => \/ spc'[p] = "ec_done" /\ sret'[p] = "nil" /\ sshConn' = "conn"
                  /\ Len(waits'[p]) = dials'[p] - 1
               \/ spc'[p] = "ec_sleep"
       /\ (spc[p] = "ec_sleep" /\ spc'[p] # "ec_sleep")
            => waits'[p] = [i \in 1..dials[p] |-> 2 * i]
       /\ (spc[p] # "ec_done" /\ spc'[p] = "ec_done" /\ sret'[p] = "error")
            => dials'[p] = ReconnectAttempts /\ Len(waits'[p]) = ReconnectAttempts
    ]_vars
\* the suspension points of the client's methods: the dial and handshake of
\* getConn, the back-off sleep, the opening of a session
SshSuspendingPcs == {"ec_dial", "ec_sleep", "ns_open"}

\* C29: no dial or handshake, session open or back-off sleep is performed by a
\* goroutine that holds SSHClient.mu, so a call of IsConnected never waits
\* behind one.
C29_NoSuspensionUnderSshLock ==
  [][\A p \in SshProcs :
       (spc[p] \in SshSuspendingPcs /\ spc'[p] # spc[p]) => p \notin sshMu]_vars
\* the strings of a sequence, joined
RECURSIVE Concat(_)
Concat(ss) == IF ss = <<>> THEN "" ELSE Head(ss) \o Concat(Tail(ss))

\* s with every "/" replaced by ":", character by character
Colons(s) == Concat([i \in 1..Len(s) |-> IF Char(s, i) = "/" THEN ":" ELSE Char(s, i)])

\* the name the rule gives for alias and remotePath
NameRule(alias, p) ==
  CASE p \in {"", "/"} -> alias
    [] p = "~" -> alias \o ":~"
    [] OTHER -> alias \o ":" \o Colons(IF Char(p, 1) = "/" THEN SubSeq(p, 2, Len(p)) ELSE p)

\* C27: MountName(alias, remotePath) is alias for "" and "/", alias:~ for "~",
\* otherwise alias, ":" and remotePath with one leading "/" stripped and every
\* "/" replaced by ":"; the name of an alias without "/" holds no "/".
C27_MountNameIsFileNameStem ==
  (Len(op) = 2 /\ op[1] = "MountName")
    => /\ res = NameRule(op[2], arg)
       /\ \A i \in 1..Len(res) : Char(res, i) # "/"

C27_Witness ==
  /\ op = <<"MountName", "d">>
  /\ arg = "//a/"
  /\ res = "d::a:"
\* C28: for every FileInfo the adapter returns, IsDir() true (every root path
\* included) comes with the directory bit set in Mode().
C28_IsDirHasDirBit ==
  (op = <<"Stat">> /\ finfo.IsDir) => "ModeDir" \in finfo.Mode
(***************************************************************************)
(* The SFTP adapter: ensureConnected, reconnect, doWithReconnect, the      *)
(* directory cache and the operations the NFS server calls. Every SFTP     *)
(* call is a step of its own: the request is under way while the goroutine *)
(* stands at it, and the step is its answer.                               *)
(***************************************************************************)
\* expiry: time.Now().Add(5 * time.Second)
DirCacheTTL == 5
\* the clock stops at MaxNow; at most MaxFaults calls fail on a working link
MaxNow == 5
MaxFaults == 1
\* the NFS server calls at most MaxOps operations
MaxOps == 2

\* the entries of the remote directory, and the paths the NFS server passes
FsNames == {"a", "c"}
Children == {"/" \o n : n \in FsNames}
FsPaths == {"/"} \cup Children
Other(p) == CHOOSE q \in Children : q # p

\* path.Dir
RECURSIVE LastSlash(_, _)
LastSlash(p, i) == IF i = 0 THEN 0 ELSE IF Char(p, i) = "/" THEN i ELSE LastSlash(p, i - 1)
Dir(p) == Clean(SubSeq(p, 1, LastSlash(p, Len(p))))

\* the operations, by what their code does around the SFTP call
CachedOps == {"Stat", "Lstat"}
WrappedOps == CachedOps \cup {"Open", "OpenFile", "OpenFile|O_CREATE"}
DirectOps == {"Create", "MkdirAll", "Chmod", "Chown", "Symlink", "Link", "Rename", "Remove"}
FsOps == WrappedOps \cup DirectOps

\* the SFTP calls an operation (the fn of a wrapped one) makes, in order
Script(name) ==
  CASE name \in CachedOps -> <<"Lstat", "ReadDir">>
    [] name = "Open" -> <<"Open", "Lstat">>
    [] name = "OpenFile" -> <<"OpenFile", "Lstat">>
    [] name = "OpenFile|O_CREATE" -> <<"Create", "Chmod", "Lstat">>
    [] name = "MkdirAll" -> <<"MkdirAll", "ReadDir">>
    [] OTHER -> <<name>>

\* calls whose error is dropped: populateDirCache's ReadDir, and the Chmod
\* that follows Create in OpenFile
Ignored(name, c) == c = "ReadDir" \/ (c = "Chmod" /\ name = "OpenFile|O_CREATE")

\* Stat, Lstat: the error of conn.Lstat is returned after populateDirCache ran
Deferred(name, c) == name \in CachedOps /\ c = "Lstat"

\* the remote path exists
RemoteHas(p) == isRootPath(p, rootDir) \/ Base(p) \in remote

\* what the server answers to a call that reaches it
Natural(c, p) ==
  IF c \in {"Lstat", "Open", "OpenFile", "Chmod", "Chown", "Remove", "Rename", "Link"}
  THEN IF RemoteHas(p) THEN "ok" ELSE "notexist"
  ELSE "ok"

\* the answers a call can get: with the link down the call fails with an
\* error that is not a does-not-exist error, and so it may on a working link
Outcomes(c, p) ==
  IF ~linkUp THEN {"other"}
  ELSE {Natural(c, p)} \cup (IF faults < MaxFaults THEN {"other"} ELSE {})

\* the remote directory after a call that succeeded
Effect(c, p) ==
  CASE c \in {"Create", "MkdirAll", "Symlink"} -> remote \cup {Base(p)}
    [] c = "Link" -> remote \cup {Base(Other(p))}
    [] c = "Rename" -> (remote \ {Base(p)}) \cup {Base(Other(p))}
    [] c = "Remove" -> remote \ {Base(p)}
    [] OTHER -> remote

\* a classifier that takes no error for a does-not-exist error
IsNotExist_Never(e) == FALSE

\* strings.Contains(errStr, "file does not exist") || strings.Contains(errStr, "no such file")
IsNotExist(e) == e = "notexist"

\* getParentDir: dirPath, the key of the parent in the cache
ParentKey(p) == IF isRootPath(p, rootDir) THEN Dir(rootDir) ELSE Dir(p)

\* a cache whose entries never expire
Fresh_Always(entry) == TRUE

\* getDirCache: time.Now().Before(entry.expiry)
Fresh(entry) == now < entry.expiry

\* findInCache: "miss", or "found" / "absent" from a fresh entry of the parent
findInCache(p, dirPath) ==
  IF p = "/" \/ p = "" THEN "miss"
  ELSE IF ~(dirPath \in DOMAIN dirCache /\ Fresh(dirCache[dirPath])) THEN "miss"
  ELSE IF Base(p) \in dirCache[dirPath].entries THEN "found"
  ELSE "absent"

fsOthers == <<daemonVars, bootVars, pathVars, sshVars, logVars>>
callerVars == <<fpc, fop, fstep, errs, ferr, fres, calls>>
envVars == <<now, remote, linkUp, faults, fsConn, dirCache, begun>>

\* the NFS server calls an operation. Stat and Lstat look into the cache first
\* and go to doWithReconnect on a miss; every other operation starts with
\* ensureConnected, whose probe is fs.conn.Lstat(".")
FsBegin(g) ==
  /\ fpc[g] = "idle"
  /\ begun < MaxOps
  /\ begun' = begun + 1
  /\ \E name \in FsOps : \E p \in (IF name \in CachedOps THEN FsPaths ELSE Children) :
       /\ fop' = [fop EXCEPT ![g] = [name |-> name, path |-> p]]
       /\ IF name \in CachedOps
          THEN LET hit == findInCache(p, ParentKey(p))
               IN  IF hit = "miss"
                   THEN /\ fpc' = [fpc EXCEPT ![g] = "call"]
                        /\ fstep' = [fstep EXCEPT ![g] = 1]
                        /\ calls' = [calls EXCEPT ![g] = 1]
                        /\ UNCHANGED fres
                   ELSE /\ fpc' = [fpc EXCEPT ![g] = "done"]
                        /\ fres' = [fres EXCEPT ![g] = IF hit = "found" THEN "nil" ELSE "notexist"]
                        /\ UNCHANGED <<fstep, calls>>
          ELSE /\ fpc' = [fpc EXCEPT ![g] = "probe"]
               /\ calls' = [calls EXCEPT ![g] = 1]
               /\ UNCHANGED <<fstep, fres>>
  /\ UNCHANGED <<now, remote, linkUp, faults, fsConn, dirCache, errs, ferr>>
  /\ UNCHANGED fsOthers

\* ensureConnected: the probe answers; on an error, reconnect
FsProbe(g) ==
  /\ fpc[g] = "probe"
  /\ \E out \in Outcomes("Lstat", ".") :
       /\ faults' = IF out = "other" /\ linkUp THEN faults + 1 ELSE faults
       /\ IF out = "ok"
          THEN /\ fpc' = [fpc EXCEPT ![g] = "call"]
               /\ fstep' = [fstep EXCEPT ![g] = 1]
               /\ calls' = [calls EXCEPT ![g] = @ + 1]
          ELSE /\ fpc' = [fpc EXCEPT ![g] = "ec_reconnect"]
               /\ UNCHANGED <<fstep, calls>>
  /\ UNCHANGED <<now, remote, linkUp, fsConn, dirCache, fop, errs, ferr, fres, begun>>
  /\ UNCHANGED fsOthers

\* reconnect: client.EnsureConnected() (the client holds a connection, so it
\* does nothing), sftp.NewClient over the SSH connection, fs.conn = newConn,
\* clearDirCache(). Then the operation goes on: after ensureConnected with its
\* first call, in doWithReconnect with the second run of fn.
FsReconnect(g) ==
  /\ fpc[g] \in {"ec_reconnect", "dwr_reconnect"}
  /\ IF linkUp
     THEN /\ fsConn' = fsConn + 1
          /\ dirCache' = <<>>
          /\ fpc' = [fpc EXCEPT ![g] = "call"]
          /\ fstep' = [fstep EXCEPT ![g] = 1]
          /\ ferr' = [ferr EXCEPT ![g] = "nil"]
          /\ calls' = [calls EXCEPT ![g] = @ + 1]
          /\ UNCHANGED fres
     ELSE /\ fres' = [fres EXCEPT ![g] = "reconnect failed"]
          /\ fpc' = [fpc EXCEPT ![g] = "done"]
          /\ UNCHANGED <<fsConn, dirCache, fstep, ferr, calls>>
  /\ UNCHANGED <<now, remote, linkUp, faults, fop, errs, begun>>
  /\ UNCHANGED fsOthers

\* the operation (the fn of doWithReconnect) ends with error e
FsEnd(g, e) ==
  IF fop[g].name \in WrappedOps
  THEN /\ errs' = [errs EXCEPT ![g] = Append(@, e)]
       /\ IF e = "nil" \/ IsNotExist(e) \/ Len(errs[g]) >= 1
          THEN /\ fres' = [fres EXCEPT ![g] = e]
               /\ fpc' = [fpc EXCEPT ![g] = "done"]
          ELSE /\ fpc' = [fpc EXCEPT ![g] = "dwr_reconnect"]
               /\ UNCHANGED fres
       /\ UNCHANGED <<fstep, calls>>
  ELSE /\ fres' = [fres EXCEPT ![g] = e]
       /\ fpc' = [fpc EXCEPT ![g] = "done"]
       /\ UNCHANGED <<errs, fstep, calls>>

\* the SFTP call under way answers
FsCall(g) ==
  /\ fpc[g] = "call"
  /\ LET name == fop[g].name
         p == fop[g].path
         c == Script(name)[fstep[g]]
         last == fstep[g] = Len(Script(name))
         key == IF name = "MkdirAll" THEN Dir(p) ELSE ParentKey(p)
     IN  \E out \in Outcomes(c, p) :
           LET e == IF out = "ok" THEN "nil" ELSE out
               goesOn == /\ ~last
                         /\ e = "nil" \/ Ignored(name, c) \/ Deferred(name, c)
           IN  /\ faults' = IF out = "other" /\ linkUp THEN faults + 1 ELSE faults
               /\ remote' = IF out = "ok" THEN Effect(c, p) ELSE remote
               /\ dirCache' = IF c = "ReadDir" /\ out = "ok"
                              THEN Put(dirCache, key,
                                       [entries |-> remote, expiry |-> now + DirCacheTTL])
                              ELSE dirCache
               /\ ferr' = [ferr EXCEPT ![g] = IF Deferred(name, c) THEN e ELSE @]
               /\ IF goesOn
                  THEN /\ fstep' = [fstep EXCEPT ![g] = @ + 1]
                       /\ calls' = [calls EXCEPT ![g] = @ + 1]
                       /\ UNCHANGED <<fpc, errs, fres>>
                  ELSE FsEnd(g, IF Ignored(name, c) THEN ferr[g] ELSE e)
  /\ UNCHANGED <<now, linkUp, fsConn, fop, begun>>
  /\ UNCHANGED fsOthers

\* the operation has returned to the NFS server
FsReturn(g) ==
  /\ fpc[g] = "done"
  /\ fpc' = [fpc EXCEPT ![g] = "idle"]
  /\ fop' = [fop EXCEPT ![g] = NoOp]
  /\ fstep' = [fstep EXCEPT ![g] = 0]
  /\ errs' = [errs EXCEPT ![g] = <<>>]
  /\ ferr' = [ferr EXCEPT ![g] = "nil"]
  /\ fres' = [fres EXCEPT ![g] = "none"]
  /\ calls' = [calls EXCEPT ![g] = 0]
  /\ UNCHANGED envVars
  /\ UNCHANGED fsOthers

\* a second passes
Tick ==
  /\ now < MaxNow
  /\ now' = now + 1
  /\ UNCHANGED <<remote, linkUp, faults, fsConn, dirCache, begun, callerVars>>
  /\ UNCHANGED fsOthers

\* the SSH connection breaks: every SFTP client over it fails from now on
LinkDrop ==
  /\ linkUp
  /\ linkUp' = FALSE
  /\ UNCHANGED <<now, remote, faults, fsConn, dirCache, begun, callerVars>>
  /\ UNCHANGED fsOthers

NextFs ==
  \/ \E g \in Callers : FsBegin(g) \/ FsProbe(g) \/ FsReconnect(g) \/ FsCall(g) \/ FsReturn(g)
  \/ Tick
  \/ LinkDrop

\* a fresh adapter, beside an idle supervisor
InitFs == InitDaemon /\ BootQuiet /\ PathQuiet /\ SshQuiet /\ FsQuiet /\ LogQuiet

SpecFs == InitFs /\ [][NextFs]_vars
\* goroutine g calls Stat or Lstat in this step
CallsStat(g) == fpc[g] = "idle" /\ fpc'[g] # "idle" /\ fop'[g].name \in CachedOps

\* the cache holds an entry for dirPath, populated less than 5 seconds ago
PopulatedWithin5s(dirPath) ==
  /\ dirPath \in DOMAIN dirCache
  /\ now - (dirCache[dirPath].expiry - DirCacheTTL) < 5

\* what a lookup of p in the entry of its parent gives
CachedAnswer(p) ==
  IF Base(p) \in dirCache[ParentKey(p)].entries THEN "nil" ELSE "notexist"

\* Stat / Lstat of p returns at once from the cache, without an SFTP call
AnsweredFromCache(g, p) ==
  fpc'[g] = "done" /\ calls'[g] = 0 /\ fres'[g] = CachedAnswer(p)

\* C22: with an entry for the parent of p populated less than 5 seconds ago,
\* Stat(p) and Lstat(p) make no SFTP call and return the cached entry, or
\* not-exist when the base name of p is not in it; an entry 5 seconds old or
\* older never satisfies a lookup.
C22_FreshParentEntryAnswersStat ==
  [][\A g \in Callers :
       CallsStat(g) =>
         LET p == fop'[g].path
         IN  /\ PopulatedWithin5s(ParentKey(p)) => AnsweredFromCache(g, p)
             /\ ~PopulatedWithin5s(ParentKey(p)) => fpc'[g] # "done"]_vars

\* C22, amended: the same for every path other than "/" and "", for which
\* Stat and Lstat do not consult the cache and always ask the server.
C22_FreshParentEntryAnswersStatBelowRoot ==
  [][\A g \in Callers :
       CallsStat(g) =>
         LET p == fop'[g].path
         IN  /\ (PopulatedWithin5s(ParentKey(p)) /\ p \notin {"/", ""})
                  => AnsweredFromCache(g, p)
             /\ (~PopulatedWithin5s(ParentKey(p)) \/ p \in {"/", ""})
                  => (fpc'[g] = "call" /\ calls'[g] = 1)]_vars

\* a lookup of /c answered not-exist from the listing [a] of the parent
C22_Witness ==
  \E g \in Callers :
    /\ fpc[g] = "done" /\ fop[g] = [name |-> "Lstat", path |-> "/c"]
    /\ calls[g] = 0 /\ fres[g] = "notexist"
    /\ "/" \in DOMAIN dirCache /\ dirCache["/"].entries = {"a"}

\* goroutine g is inside doWithReconnect
InDoWithReconnect(g) == fop[g].name \in WrappedOps /\ fpc[g] \in {"call", "dwr_reconnect"}

\* a run of fn by goroutine g ends in this step with error e
RunEnds(g, e) == Len(errs'[g]) = Len(errs[g]) + 1 /\ errs'[g][Len(errs'[g])] = e

\* doWithReconnect returns e to goroutine g in this step
Returns(g, e) == fpc'[g] = "done" /\ fres'[g] = e

\* reconnect installs a new SFTP client and clears the directory cache
Rebuilt == fsConn' = fsConn + 1 /\ dirCache' = <<>>

\* C23: doWithReconnect runs the operation at most twice. A first run that
\* succeeds or fails with a does-not-exist error is not retried, no reconnect
\* happens and its error is returned unchanged. After any other error the SFTP
\* client is rebuilt and the directory cache cleared, and the operation runs
\* exactly once more; if the rebuild fails there is no second run and an error
\* is returned.
C23_DoWithReconnectRetriesOnce ==
  [][\A g \in Callers : InDoWithReconnect(g) =>
       /\ Len(errs'[g]) <= 2
       /\ \A e \in {"nil", "notexist", "other"} :
            (Len(errs[g]) = 0 /\ RunEnds(g, e)) =>
               IF e \in {"nil", "notexist"}
               THEN Returns(g, e) /\ fsConn' = fsConn
               ELSE fpc'[g] = "dwr_reconnect" /\ fsConn' = fsConn /\ fres'[g] = fres[g]
       /\ (fpc[g] = "dwr_reconnect" /\ fpc'[g] # "dwr_reconnect") =>
            /\ errs[g] = <<"other">> /\ errs'[g] = errs[g]
            /\ \/ Rebuilt /\ fpc'[g] = "call" /\ fstep'[g] = 1
               \/ fsConn' = fsConn /\ Returns(g, "reconnect failed")
       /\ \A e \in {"nil", "notexist", "other"} :
            (Len(errs[g]) = 1 /\ RunEnds(g, e)) => Returns(g, e) /\ fsConn' = fsConn
       /\ (fpc[g] = "call" /\ fpc'[g] = "dwr_reconnect") => Len(errs[g]) = 0
       /\ (fpc[g] = "call" /\ Len(errs[g]) = 1) => fpc'[g] \in {"call", "done"}]_vars

\* an Open whose first run failed on a broken client, and whose second run,
\* after the rebuild, succeeded
C23_Witness ==
  \E g \in Callers :
    /\ fpc[g] = "done" /\ fop[g].name = "Open"
    /\ errs[g] = <<"other", "nil">> /\ fres[g] = "nil"
    /\ fsConn = 1 /\ dirCache = <<>>

\* the mutating and the opening operations
MutatingOps == {"Create", "MkdirAll", "Open", "OpenFile", "OpenFile|O_CREATE",
                "Chmod", "Chown", "Symlink", "Link", "Rename", "Remove"}

\* C24: every mutating or opening operation goes through doWithReconnect: it
\* never returns an error other than does-not-exist from its SFTP call
\* without a rebuild of the SFTP client and a second run.
C24_MutatingOpsGoThroughDoWithReconnect ==
  [][\A g \in Callers :
       (fpc[g] = "call" /\ fop[g].name \in MutatingOps /\ Returns(g, "other"))
         => Len(errs'[g]) = 2]_vars

\* goroutine g has an SFTP request under way on fs.conn
SftpInFlight(g) == fpc[g] \in {"probe", "call"}

\* goroutine g is in reconnect, about to replace fs.conn
Replacing(g) == fpc[g] \in {"ec_reconnect", "dwr_reconnect"}

\* C26: the SFTP operations of one adapter are serialized: at most one is
\* under way at any time, and no operation is under way on the SFTP client
\* while another goroutine replaces it in reconnect.
C26_SftpOperationsSerialized ==
  \A g, h \in Callers :
    (g # h /\ (SftpInFlight(g) \/ Replacing(g))) => ~(SftpInFlight(h) \/ Replacing(h))

\* MkdirAll(d) has returned nil to goroutine g
MkdirAllSucceeded(g) == fpc[g] = "done" /\ fop[g].name = "MkdirAll" /\ fres[g] = "nil"

\* C30: after a successful MkdirAll(d) the cache does not answer a lookup of
\* d with not-exist: the entry of the parent of d is a listing read after the
\* directory was created.
C30_MkdirAllRepopulatesParent ==
  \A g \in Callers :
    (MkdirAllSucceeded(g) /\ Base(fop[g].path) \in remote)
      => findInCache(fop[g].path, ParentKey(fop[g].path)) # "absent"

(***************************************************************************)
(* The supervisor under concurrent requests.                               *)
(***************************************************************************)
\* handleUp of connection c has returned, and its response is not written yet
UpReturned(c) == cmd[c].type = "up" /\ pc[c] = "respond"

\* something the pipeline of c started is still up
LeftRunning(c) == client[c] = "open" \/ sshfs[c] = "open" \/ nfs[c] # Nil

\* the registry entry of name n holds the mount that c built
Owns(n, c) == n \in DOMAIN mounts /\ mounts[n] = c

\* C32: of two concurrent up requests with the same alias and remote path at
\* most one returns success, and once both have returned whatever either
\* started is closed or owned by the registry entry of the name.
C32_SameNameUpsOneWinner ==
  \A c1, c2 \in Conns :
    (c1 # c2 /\ UpReturned(c1) /\ UpReturned(c2) /\ NameOf(c1) = NameOf(c2))
      => /\ ~(resp[c1].ok /\ resp[c2].ok)
         /\ \A c \in {c1, c2} : LeftRunning(c) => Owns(NameOf(c), c)

\* the positions of handleUp between its already-mounted check and its
\* insertion into the registry
UpInFlightPcs == {"up_log", "sm_port", "sm_mkdir", "sm_ssh", "sm_server", "sm_mount", "up_insert"}

\* C33: the supervisor does not self-exit while the up pipeline of another
\* connection is between its already-mounted check and its insertion.
C33_NoSelfExitDuringUp ==
  [][\A c \in Conns :
       (Leaves(c, "respond") /\ exited')
         => \A c2 \in Conns \ {c} : pc[c2] \notin UpInFlightPcs]_vars

\* handleStop of p holds the mount m it looked up, and has not reported it yet
Stopping(p, m) == pc[p] \in {"stop_teardown", "stop_delete", "stop_delstate"} /\ cur[p] = m

\* C34: when two downs of one registered mount interleave, the mount's SFTP
\* adapter, SSH client and log handle are each closed once, and one of the two
\* reports the name as stopped.
C34_ConcurrentDownsCloseOnce ==
  [][\A p \in Procs :
       /\ Leaves(p, "stop_teardown")
            => /\ sshfs[cur[p]] # "closed"
               /\ client[cur[p]] # "closed"
               /\ logh[cur[p]] # "closed"
       /\ Leaves(p, "stop_delstate")
            => \A q \in Procs \ {p} : ~Stopping(q, cur[p])]_vars

(***************************************************************************)
(* The size-limited writer of a mount's log (truncatingFile.Write). The    *)
(* log is the output of the standard logger, of the NFS library's logger,  *)
(* and of the SSH session and the mount command of startMount; each of     *)
(* them calls Write from its own goroutine.                                *)
(***************************************************************************)
\* maxSize, in bytes. The code's cap is 10 MiB; the model's files are short.
LogCap == 2
\* the Write calls of a run
MaxWrites == 4

logOthers == <<daemonVars, bootVars, pathVars, sshVars, fsVars>>

\* content[len(content)/2:]
SecondHalf(content) == SubSeq(content, Len(content) \div 2 + 1, Len(content))

\* Write(p) is called; f.Stat(), info.Size() >= f.maxSize
WriteStat(w) ==
  /\ wpc[w] = "idle"
  /\ wcount < MaxWrites
  /\ wcount' = wcount + 1
  /\ wbytes' = [wbytes EXCEPT ![w] = <<wcount + 1>>]
  /\ wpc' = [wpc EXCEPT ![w] = IF Len(logContent) >= LogCap THEN "read" ELSE "write"]
  /\ UNCHANGED <<logContent, logWritten, wbuf>>
  /\ UNCHANGED logOthers

\* content, err := os.ReadFile(f.Name())
WriteReadFile(w) ==
  /\ wpc[w] = "read"
  /\ wbuf' = [wbuf EXCEPT ![w] = logContent]
  /\ wpc' = [wpc EXCEPT ![w] = "rewrite"]
  /\ UNCHANGED <<logContent, logWritten, wbytes, wcount>>
  /\ UNCHANGED logOthers

\* os.WriteFile(f.Name(), newContent, 0644); f.File.Close(); the file is opened
\* again with O_APPEND and put in the place of the old one
WriteTruncate(w) ==
  /\ wpc[w] = "rewrite"
  /\ logContent' = SecondHalf(wbuf[w])
  /\ wbuf' = [wbuf EXCEPT ![w] = <<>>]
  /\ wpc' = [wpc EXCEPT ![w] = "write"]
  /\ UNCHANGED <<logWritten, wbytes, wcount>>
  /\ UNCHANGED logOthers

\* f.Seek(0, 2); f.File.Write(p); Write returns
WriteAppend(w) ==
  /\ wpc[w] = "write"
  /\ logContent' = logContent \o wbytes[w]
  /\ logWritten' = logWritten \o wbytes[w]
  /\ wbytes' = [wbytes EXCEPT ![w] = <<>>]
  /\ wpc' = [wpc EXCEPT ![w] = "idle"]
  /\ UNCHANGED <<wbuf, wcount>>
  /\ UNCHANGED logOthers

NextLog ==
  \E w \in Writers : WriteStat(w) \/ WriteReadFile(w) \/ WriteTruncate(w) \/ WriteAppend(w)

\* a log fresh from openLogFile, beside an idle supervisor
InitLog == InitDaemon /\ BootQuiet /\ PathQuiet /\ SshQuiet /\ FsQuiet /\ LogQuiet

SpecLog == InitLog /\ [][NextLog]_vars

\* s is a suffix of t
IsSuffix(s, t) == Len(s) <= Len(t) /\ s = SubSeq(t, Len(t) - Len(s) + 1, Len(t))

\* C31: a Write that finds the file at or above the cap keeps the bytes from
\* index len/2 on and appends the new bytes; the content of the file is always
\* a suffix of all the bytes written since the log was opened.
C31_LogIsSuffixOfWrites ==
  [][/\ \A w \in Writers :
          /\ (wpc[w] = "rewrite" /\ wpc'[w] = "write") => logContent' = SecondHalf(logContent)
          /\ (wpc[w] = "write" /\ wpc'[w] = "idle") => logContent' = logContent \o wbytes[w]
     /\ IsSuffix(logContent', logWritten')]_vars

\* what a Stat or Lstat of p issued now gets from the cache
Lookup(p) == findInCache(p, ParentKey(p))

\* the cache does not contradict the remote directory about p
CacheAgrees(p) ==
  /\ Base(p) \in remote => Lookup(p) # "absent"
  /\ Base(p) \notin remote => Lookup(p) # "found"

\* C35: after a successful Create, OpenFile with the create flag, Remove or
\* Rename, a Stat or Lstat of the affected path reflects the change, whatever
\* the cache held for the parent directory before.
C35_MutationsVisibleToStat ==
  \A g \in Callers :
    (/\ fpc[g] = "done" /\ fres[g] = "nil"
     /\ fop[g].name \in {"Create", "OpenFile|O_CREATE", "Remove", "Rename"})
      => /\ CacheAgrees(fop[g].path)
         /\ fop[g].name = "Rename" => CacheAgrees(Other(fop[g].path))

\* the handler that built mount m has returned, m is up (client, adapter and
\* server), and the host does not list its mount directory: no host mount
\* command has succeeded on it
UpButNotMounted(m) == pc[m] = "done" /\ Running(m) /\ ~IsMounted(info[m].mountDir)

\* C36: a mount registered although its host mount command failed stays
\* registered and up until a client sends a down for it: the monitor does not
\* go on to tear it down.
C36_MonitorSparesFailedHostMount ==
  [][(pc[Mon] = "stop_loop" /\ pc'[Mon] = "stop_teardown")
       => ~UpButNotMounted(cur'[Mon])]_vars

(***************************************************************************)
(* The monitor and a mount whose SSH connection breaks.                    *)
(***************************************************************************)
\* the mount an up of d:/ at the default directory has built and registered
FirstInfo ==
  [name |-> "d", port |-> 4001, mountDir |-> MountDirOf("d", ""), sshAlias |-> "d",
   remotePath |-> "/", startedAt |-> 1]

\* the supervisor after connection 1 sent up d:/ and got ok = true: the mount
\* is registered, saved, mounted on the host and served
InitMounted ==
  /\ exited = FALSE
  /\ mounts = [n \in {"d"} |-> 1]
  /\ aged = {}
  /\ stateFiles = [n \in {"d"} |-> FirstInfo]
  /\ logs = [n \in {"d"} |-> 1]
  /\ dirs = {d \in MountDirs : d # ""} \cup {FirstInfo.mountDir}
  /\ mtab = [d \in {FirstInfo.mountDir} |-> 1]
  /\ client = [c \in Conns |-> IF c = 1 THEN "open" ELSE "none"]
  /\ sshfs = [c \in Conns |-> IF c = 1 THEN "open" ELSE "none"]
  /\ logh = [c \in Conns |-> IF c = 1 THEN "open" ELSE "none"]
  /\ nfs = [c \in Conns |-> IF c = 1 THEN FirstInfo.port ELSE Nil]
  /\ info = [c \in Conns |-> IF c = 1 THEN FirstInfo ELSE NoInfo]
  /\ pc = [p \in Procs |-> IF p = Mon THEN "mon_idle" ELSE IF p = 1 THEN "done" ELSE "idle"]
  /\ cmd = [c \in Conns |-> NoCmd]
  /\ resp = [c \in Conns |-> NoResp]
  /\ names = [p \in Procs |-> <<>>]
  /\ idx = [p \in Procs |-> 1]
  /\ stopped = [p \in Procs |-> <<>>]
  /\ cur = [p \in Procs |-> Nil]
  /\ listen = [c \in Conns |-> Nil]
  /\ mountErr = [c \in Conns |-> FALSE]
  /\ toStop = <<>>
  /\ mu = {}

\* the SSH connection of mount m breaks (the server goes away, the network
\* drops): nothing in the supervisor is told, SSHClient.conn keeps its value
ConnLost(m) ==
  /\ ~exited
  /\ client[m] = "open"
  /\ \E n \in DOMAIN mounts : mounts[n] = m
  /\ client' = [client EXCEPT ![m] = "lost"]
  /\ UNCHANGED <<exited, regVars, diskVars, mtab, sshfs, logh, nfs, info, pc, cmd, resp,
                 stopVars, upVars, monVars>>
  /\ UNCHANGED <<bootVars, pathVars, sshVars, fsVars, logVars>>

NextMon ==
  \/ Next
  \/ \E m \in Conns : ConnLost(m)

InitMon == InitMounted /\ BootQuiet /\ PathQuiet /\ SshQuiet /\ FsQuiet /\ LogQuiet

SpecMon == InitMon /\ [][NextMon]_vars

\* the connection of the mount registered as n is lost or closed, the mount is
\* past its grace window and its directory is listed in the host mount table
LostButMounted(n) ==
  /\ n \in DOMAIN mounts
  /\ mounts[n] \in aged
  /\ client[mounts[n]] \in {"lost", "closed"}
  /\ IsMounted(info[mounts[n]].mountDir)

\* C37: when the SSH connection of a mount past its grace window is lost or
\* closed while its directory is still mounted, IsConnected() is false and the
\* pass of the monitor schedules the mount for a teardown.
C37_LostConnectionTornDown ==
  [][(pc[Mon] = "mon_scan" /\ pc'[Mon] = "mon_loop")
       => \A n \in Names :
            LostButMounted(n) => ~IsConnected(mounts[n]) /\ n \in Range(toStop')]_vars

\* an NFS-visible path in its canonical form
IsFilePath(p) == IsAbs(p) /\ Clean(p) = p

\* C38: the string GetFileId hashes identifies the file by its path: the
\* FileInfo of no other path of the mount, whatever its size, gives the same
\* string.
C38_FileIdKeyIdentifiesPath ==
  (Len(op) = 2 /\ op[1] = "GetFileId" /\ IsFilePath(arg))
    => \A q \in Paths : \A size \in FileSizes :
         (IsFilePath(q) /\ q # arg) => FileIdKey(Base(q), size) # res

\* C39: ParseTarget inverts the formatting of a target: for an alias without
\* ":" and a non-empty remote path p, ParseTarget(alias:p) is (alias, p); the
\* target alias:/ gives the path "/".
C39_ParseTargetInvertsFormat ==
  (Len(op) = 3 /\ op[1] = "ParseTarget" /\ arg # "") => (op[3] = op[2] /\ res = arg)

\* connection c carries the first command the supervisor has received, and
\* nothing else has run: what is on the host is what was there before
FirstCommand(c) ==
  /\ c = 1
  /\ \A c2 \in Conns \ {c} : pc[c2] = "idle"
  /\ pc[Mon] = "mon_idle"

\* C40: the supervisor removes only mount directories it created: a directory
\* the client named in mountDir and that existed before the up is still there
\* when the up has failed.
C40_FailedUpKeepsUserDir ==
  [][\A c \in Conns :
       (/\ FirstCommand(c)
        /\ cmd[c].type = "up" /\ cmd[c].mountDir # ""
        /\ cmd[c].mountDir \in {d \in MountDirs : d # ""}
        /\ pc[c] # "respond" /\ pc'[c] = "respond" /\ ~resp'[c].ok)
         => cmd[c].mountDir \in dirs']_vars

====
